---- MODULE Spec2Model ----
(***************************************************************************)
(* JobTrack4U end-to-end suite: the page objects (pages/*.js), the global  *)
(* setup routine (SETUP.md) and the browser session they drive.            *)
(*                                                                         *)
(* The module holds several specifications over one set of variables:      *)
(*   QuerySpec   BasePage's sentinel queries against a changing DOM        *)
(*   SetupSpec   globalSetup / waitForApplication / setupTestData, then    *)
(*               the first performLogin() of a test                        *)
(*   Spec        one test's browser session: navigation and page objects   *)
(*   FormSpec    AddJobPage's form-filling workflow                        *)
(*   DialogSpec  native dialogs and the listeners registered for them      *)
(*   RunSpec     one test case's actions: awaited calls and Promise.all    *)
(*   HistorySpec the session with the browser's history: back and forward  *)
(*   AuthFormSpec the login / register form and AuthPage's mode switches   *)
(*   TimelineSpec the timeline page's view-mode controls                   *)
(*   FilterSpec  the job listing's search and filter controls              *)
(*   EmailSpec   generateTestEmail called from parallel workers            *)
(*   WorkerSpec  the delete-job test run by several workers at once        *)
(*   ActivitySpec the activities page read while it re-renders             *)
(*   UrlSpec     the two isOnDashboard checks on the URLs a page can show  *)
(* A specification leaves the variables of the other ones untouched.       *)
(***************************************************************************)
EXTENDS Integers, Sequences, FiniteSets, TLC

VARIABLES
  dom,        \* QuerySpec: selector -> sequence of matching elements
  pending,    \* QuerySpec: the locator action that is auto-waiting, if any
  ret,        \* QuerySpec: outcome of the last completed BasePage query
  pc,         \* global setup: where globalSetup stands
  retries,    \* global setup: waitForApplication's local `retries`
  attempts,   \* global setup: requests sent so far to each service
  browsers,   \* global setup: browsers launched and not yet closed
  users,      \* backend: the registered accounts
  url,        \* session: page.url()
  authed,     \* session: the context holds a valid session cookie
  loginRoute, \* application: where unauthenticated visitors are sent
  last,       \* session: the last page-object call and how it ended
  form,       \* add-job form: field -> current value
  fill,       \* add-job form: the last fill workflow run on it
  readBack,   \* add-job form: what getFormValues returned after it
  listeners,  \* dialogs: the 'dialog' listeners on the page, oldest first
  dialog,     \* dialogs: how the last native dialog was dealt with
  cards,      \* dialogs: job cards and activity cards on display
  script,     \* test run: the test body, a sequence of awaited steps
  step,       \* test run: the step the test body stands at
  inflight,   \* test run: actions started and not yet settled
  settled,    \* test run: actions settled so far, in order
  status,     \* test run: running, passed or failed
  history,    \* browser history: the URLs of the tab's entries
  cursor,     \* browser history: the entry on display
  authForm,   \* auth form: its mode, its mode-switch control, its inputs
  probe,      \* auth form: the last AuthPage call on it and its outcome
  timeline,   \* timeline page: view mode, job options, markup of the buttons
  view,       \* timeline page: the last TimelinePage call and what it returned
  filters,    \* job listing: control -> current value
  trail,      \* job listing: the last two JobsPage filter calls
  current,    \* job listing: what getCurrentFilters returned last
  applied,    \* job listing: the last applyFilters call and what it touched
  clock,      \* test data: the wall clock, in milliseconds
  emails,     \* test data: the addresses generateTestEmail returned, by worker
  jobs,       \* workers: the 'DeleteTest LLC' jobs the test user has, by creator
  at,         \* workers: worker -> the next statement of 'should delete a job'
  shown,      \* workers: worker -> the 'DeleteTest LLC' cards on its page
  outcome,    \* workers: worker -> how its test ended
  activityCards,   \* activities page: the text of each activity card shown
  activitiesState, \* activities page: getActivitiesState, as far as it got
  typeCheck,       \* activities page: the last doesActivityTypeAppearInResults
  address,    \* dashboard checks: page.url()
  verdicts    \* dashboard checks: what each isOnDashboard said about it

queryVars == <<dom, pending, ret>>
setupVars == <<pc, retries, attempts, browsers>>
sessionVars == <<users, url, authed, loginRoute, last>>
formVars == <<form, fill, readBack>>
dialogVars == <<listeners, dialog, cards>>
runVars == <<script, step, inflight, settled, status>>
\* The parts of the suite modelled after the first five.
historyVars == <<history, cursor>>
authFormVars == <<authForm, probe>>
timelineVars == <<timeline, view>>
filterVars == <<filters, trail, current, applied>>
emailVars == <<clock, emails>>
workerVars == <<jobs, at, shown, outcome>>
activityVars == <<activityCards, activitiesState, typeCheck>>
urlVars == <<address, verdicts>>
moreVars ==
  <<runVars, historyVars, authFormVars, timelineVars, filterVars, emailVars,
    workerVars, activityVars, urlVars>>
vars == <<queryVars, setupVars, sessionVars, formVars, dialogVars, moreVars>>

(***************************************************************************)
(* Generic helpers                                                         *)
(***************************************************************************)
Includes(s, p) ==
  \E i \in 0..(Len(s) - Len(p)) : SubSeq(s, i + 1, i + Len(p)) = p

EndsWith(s, p) ==
  Len(s) >= Len(p) /\ SubSeq(s, Len(s) - Len(p) + 1, Len(s)) = p

(***************************************************************************)
(* QuerySpec: BasePage.getTextContent / isVisible / getElementCount        *)
(***************************************************************************)
\* Most elements one selector may match in the modelled DOM.
MaxMatches == 2

\* Symbolic locators the queries are called with (locator maps of the pages).
Selectors == {"pageTitle", "alertMessage"}

Texts == {"", "Job Created"}

Element == [text : Texts, visible : BOOLEAN]

NoPending == [op |-> "none", sel |-> "none"]

NoRet == [op |-> "none", sel |-> "none", zero |-> FALSE, threw |-> FALSE,
          error |-> "none", bool |-> FALSE, num |-> 0, str |-> ""]

\* What a query hands back to the scenario: a value or a raised error.
Returned(op, sel, zero, b, n, s) ==
  [op |-> op, sel |-> sel, zero |-> zero, threw |-> FALSE, error |-> "none",
   bool |-> b, num |-> n, str |-> s]

Threw(op, sel, zero, err) ==
  [op |-> op, sel |-> sel, zero |-> zero, threw |-> TRUE, error |-> err,
   bool |-> FALSE, num |-> 0, str |-> ""]

\* locator(selector).isVisible(): no waiting; false when nothing matches,
\* a strict-mode violation when several elements match.
isVisible_throwing(els, sel) ==
  IF Len(els) = 0 THEN Threw("isVisible", sel, TRUE, "TimeoutError")
  ELSE IF Len(els) > 1 THEN Threw("isVisible", sel, FALSE, "StrictModeViolation")
  ELSE Returned("isVisible", sel, FALSE, els[1].visible, 0, "")

isVisible(els, sel) ==
  IF Len(els) = 0 THEN Returned("isVisible", sel, TRUE, FALSE, 0, "")
  ELSE IF Len(els) > 1 THEN Threw("isVisible", sel, FALSE, "StrictModeViolation")
  ELSE Returned("isVisible", sel, FALSE, els[1].visible, 0, "")

\* locator(selector).count(): the number of matches, never an error.
getElementCount(els, sel) ==
  Returned("getElementCount", sel, Len(els) = 0, FALSE, Len(els), "")

\* locator(selector).textContent(): auto-waits for one element to be attached.
\* `zero` tells whether the selector matched nothing for the whole call.
getTextContent(els, sel, zero) ==
  IF Len(els) = 0 THEN Threw("getTextContent", sel, zero, "TimeoutError")
  ELSE IF Len(els) > 1 THEN Threw("getTextContent", sel, FALSE, "StrictModeViolation")
  ELSE Returned("getTextContent", sel, FALSE, FALSE, 0, els[1].text)

QueryInit ==
  /\ dom = [s \in Selectors |-> <<>>]
  /\ pending = NoPending
  /\ ret = NoRet

\* A query touches nothing but the page it reads.
QueryFrame == UNCHANGED <<setupVars, sessionVars, formVars, dialogVars, moreVars>>

\* The application re-renders: an element matching the selector is added.
DomAdd(sel, el) ==
  /\ Len(dom[sel]) < MaxMatches
  /\ dom' = [dom EXCEPT ![sel] = Append(@, el)]
  /\ UNCHANGED <<pending, ret>>
  /\ QueryFrame

\* The application re-renders: the first element matching the selector goes.
DomRemove(sel) ==
  /\ Len(dom[sel]) > 0
  /\ dom' = [dom EXCEPT ![sel] = Tail(@)]
  /\ UNCHANGED <<pending, ret>>
  /\ QueryFrame

IsVisible(sel) ==
  /\ pending = NoPending
  /\ ret' = isVisible(dom[sel], sel)
  /\ UNCHANGED <<dom, pending>>
  /\ QueryFrame

GetElementCount(sel) ==
  /\ pending = NoPending
  /\ ret' = getElementCount(dom[sel], sel)
  /\ UNCHANGED <<dom, pending>>
  /\ QueryFrame

\* getTextContent on a selector that matches at once.
GetTextContent(sel) ==
  /\ pending = NoPending
  /\ Len(dom[sel]) > 0
  /\ ret' = getTextContent(dom[sel], sel, FALSE)
  /\ UNCHANGED <<dom, pending>>
  /\ QueryFrame

\* getTextContent on a selector that matches nothing: the locator waits.
GetTextContentWait(sel) ==
  /\ pending = NoPending
  /\ Len(dom[sel]) = 0
  /\ pending' = [op |-> "getTextContent", sel |-> sel]
  /\ ret' = NoRet
  /\ UNCHANGED dom
  /\ QueryFrame

\* The awaited element was rendered during the wait.
GetTextContentResume ==
  /\ pending.op = "getTextContent"
  /\ Len(dom[pending.sel]) > 0
  /\ ret' = getTextContent(dom[pending.sel], pending.sel, FALSE)
  /\ pending' = NoPending
  /\ UNCHANGED dom
  /\ QueryFrame

\* actionTimeout elapsed with still nothing matching.
GetTextContentTimeout ==
  /\ pending.op = "getTextContent"
  /\ Len(dom[pending.sel]) = 0
  /\ ret' = getTextContent(dom[pending.sel], pending.sel, TRUE)
  /\ pending' = NoPending
  /\ UNCHANGED dom
  /\ QueryFrame

QueryNext ==
  \/ \E sel \in Selectors, el \in Element : DomAdd(sel, el)
  \/ \E sel \in Selectors : DomRemove(sel)
  \/ \E sel \in Selectors : IsVisible(sel)
  \/ \E sel \in Selectors : GetElementCount(sel)
  \/ \E sel \in Selectors : GetTextContent(sel)
  \/ \E sel \in Selectors : GetTextContentWait(sel)
  \/ GetTextContentResume
  \/ GetTextContentTimeout

(***************************************************************************)
(* The application under test, as the suite's tests pin it down            *)
(***************************************************************************)
\* baseURL, as page.url() reports it, cut at the slashes.
Origin == <<"http:", "/", "/", "localhost:3000">>

AboutBlank == <<"about:blank">>

\* The URL of an application route: '/' is <<>>, '/all-jobs' is <<"all-jobs">>.
Route(name) == Origin \o <<"/">> \o name

DashboardUrl == Route(<<>>)

\* The seeded account and performLogin's default argument.
TestUser == [email |-> "test@jobtrack.com", password |-> "testpassword123"]

DefaultCredentials == [email |-> "aaaa@gmail.com", password |-> "aaaaaa"]

Accounts == {TestUser, DefaultCredentials}

\* The login form lets in exactly the registered accounts.
AppLogin(credentials, registered) == credentials \in registered

\* Registration adds the account unless its email is taken.
AppRegister(account, registered) ==
  IF \E u \in registered : u.email = account.email
  THEN registered
  ELSE registered \cup {account}

NoCall == [method |-> "none", arg |-> "none", outcome |-> "none",
           error |-> "none", raised |-> <<>>, before |-> FALSE]

\* Routes behind the login and the public ones (spec: external interfaces).
ProtectedRoutes == {<<>>, <<"all-jobs">>, <<"add-job">>, <<"activities">>,
                    <<"timeline">>, <<"profile">>}

PublicRoutes == {<<"register">>, <<"landing">>}

Protected(u) == \E route \in ProtectedRoutes : u = Route(route)

\* Where page.goto(route) ends: a protected route sends a visitor without a
\* session to the login route.
Resolve(route, session, fallback) ==
  IF route \in ProtectedRoutes /\ ~session THEN Route(fallback) ELSE Route(route)

\* How a page-object call ended: the engine errors raised inside it, in
\* order, and the one that reached the caller ("none" when it returned).
Call(method, arg, raised, error, before) ==
  [method |-> method, arg |-> arg,
   outcome |-> IF error = "none" THEN "returned" ELSE "threw",
   error |-> error, raised |-> raised, before |-> before]

SessionIdle ==
  /\ users = {}
  /\ url = AboutBlank
  /\ authed = FALSE
  /\ loginRoute = <<"landing">>
  /\ last = NoCall

(***************************************************************************)
(* Global setup (SETUP.md): globalSetup, waitForApplication, setupTestData *)
(***************************************************************************)
\* let retries = 30
MaxRetries == 30

\* The model stops counting requests to one service here.
AttemptCap == 32

FrontendAnswers == {"loaded", "error"}

\* A response status, or "error" when the request itself fails.
BackendAnswers == {"200", "401", "500", "error"}

\* Where setupTestData may fail: nowhere, in chromium.launch() or in
\* browser.newPage() ahead of the try, in the first page.goto, or inside the
\* inner try (the second goto, a fill that finds no field, the submit).
SeedFailures == {"none", "launch", "newPage", "goto", "register"}

SetupIdle ==
  /\ pc = "idle"
  /\ retries = 0
  /\ attempts = [frontend |-> 0, backend |-> 0]
  /\ browsers = 0

SetupInit ==
  /\ pc = "start"
  /\ retries = 0
  /\ attempts = [frontend |-> 0, backend |-> 0]
  /\ browsers = 0
  /\ users \in SUBSET Accounts
  /\ url = AboutBlank
  /\ authed = FALSE
  /\ loginRoute \in {<<"landing">>, <<"register">>}
  /\ last = NoCall

SetupFrame == UNCHANGED <<queryVars, formVars, dialogVars, moreVars>>

\* globalSetup enters waitForApplication: chromium.launch(), retries = 30.
WaitForApplication ==
  /\ pc = "start"
  /\ pc' = "frontend"
  /\ retries' = MaxRetries
  /\ browsers' = browsers + 1
  /\ UNCHANGED <<attempts, sessionVars>>
  /\ SetupFrame

\* One turn of the frontend loop, then what follows it without a request:
\* the retries === 0 check and the reset of retries for the backend loop.
PollFrontend(answer) ==
  /\ pc = "frontend"
  /\ retries > 0
  /\ attempts.frontend < AttemptCap
  /\ attempts' = [attempts EXCEPT !.frontend = @ + 1]
  /\ IF answer = "loaded"
       THEN /\ pc' = "backend"
            /\ retries' = MaxRetries
       ELSE /\ retries' = retries - 1
            /\ pc' = IF retries - 1 = 0 THEN "threw" ELSE "frontend"
  /\ UNCHANGED <<browsers, sessionVars>>
  /\ SetupFrame

\* One turn of the backend loop: only a failed request is caught, counted
\* and followed by the 2 s wait; a response with another status is not.
PollBackend(answer) ==
  /\ pc = "backend"
  /\ retries > 0
  /\ attempts.backend < AttemptCap
  /\ attempts' = [attempts EXCEPT !.backend = @ + 1]
  /\ IF answer \in {"401", "200"}
       THEN /\ pc' = "seed"
            /\ retries' = 0
            /\ browsers' = browsers - 1
       ELSE IF answer = "error"
       THEN /\ retries' = retries - 1
            /\ pc' = IF retries - 1 = 0 THEN "threw" ELSE "backend"
            /\ browsers' = browsers
       ELSE UNCHANGED <<pc, retries, browsers>>
  /\ UNCHANGED sessionVars
  /\ SetupFrame

setupTestData_rethrowing(failure, registered) ==
  [users |-> IF failure = "none" THEN AppRegister(TestUser, registered)
             ELSE registered,
   raised |-> failure,
   launched |-> IF failure = "launch" THEN 0 ELSE 1,
   closed |-> IF failure \in {"launch", "newPage"} THEN 0 ELSE 1]

\* setupTestData: registers test@jobtrack.com through the UI.  An error of
\* the registration steps is caught by the inner catch, one of the first
\* page.goto by the outer catch, and finally closes the browser;
\* chromium.launch() and browser.newPage() come before the try.
setupTestData(failure, registered) ==
  LET inner == IF failure = "register" THEN "none" ELSE failure
      outer == IF inner = "goto" THEN "none" ELSE inner
  IN [users |-> IF failure = "none" THEN AppRegister(TestUser, registered)
                ELSE registered,
      raised |-> outer,
      launched |-> IF failure = "launch" THEN 0 ELSE 1,
      closed |-> IF failure \in {"launch", "newPage"} THEN 0 ELSE 1]

\* Where global setup stands once setupTestData has thrown.
SeedThrew(raised) ==
  IF raised \in {"launch", "newPage"} THEN "setupTestData threw ahead of its try"
  ELSE "setupTestData threw in its try"

\* globalSetup's second step: chromium.launch(), the body, browser.close().
SetupTestData(failure) ==
  /\ pc = "seed"
  /\ LET r == setupTestData(failure, users)
     IN /\ pc' = IF r.raised = "none" THEN "done" ELSE SeedThrew(r.raised)
        /\ users' = r.users
        /\ browsers' = browsers + r.launched - r.closed
  /\ UNCHANGED <<retries, attempts, url, authed, loginRoute, last>>
  /\ SetupFrame

\* What cleanupTestData may do: return, or fail once it does real work.
CleanupFailures == {"none", "cleanup"}

\* globalTeardown: the catch logs the error and does not throw.
globalTeardown(failure) == "none"

\* The run is over: globalTeardown.
GlobalTeardown(failure) ==
  /\ pc = "done"
  /\ pc' = IF globalTeardown(failure) = "none" THEN "finished"
           ELSE "globalTeardown threw"
  /\ UNCHANGED <<retries, attempts, browsers, sessionVars>>
  /\ SetupFrame

\* AuthPage.performLogin: navigateToAuth, login, waitForUrl('/').
performLogin(credentials, registered) ==
  LET ok == AppLogin(credentials, registered)
      landed == IF ok THEN DashboardUrl ELSE Route(<<"register">>)
  IN [url |-> landed,
      authed |-> ok,
      call |-> Call("performLogin", credentials.email, 
                    IF landed = DashboardUrl THEN <<>> ELSE <<"waitForURL">>,
                    IF landed = DashboardUrl THEN "none" ELSE "waitForURL",
                    FALSE)]

\* A test calls performLogin() with no argument, once setup is through.
PerformLoginDefault ==
  /\ pc = "done"
  /\ LET r == performLogin(DefaultCredentials, users)
     IN /\ url' = r.url
        /\ authed' = (authed \/ r.authed)
        /\ last' = r.call
  /\ UNCHANGED <<setupVars, users, loginRoute>>
  /\ SetupFrame

SetupNext ==
  \/ WaitForApplication
  \/ \E answer \in FrontendAnswers : PollFrontend(answer)
  \/ \E answer \in BackendAnswers : PollBackend(answer)
  \/ \E failure \in SeedFailures : SetupTestData(failure)
  \/ \E failure \in CleanupFailures : GlobalTeardown(failure)
  \/ PerformLoginDefault

(***************************************************************************)
(* One test's session: navigation through the page objects                 *)
(***************************************************************************)
\* Page objects with a navigateToX / isOnXPage pair.
Pages == {"Jobs", "AddJob", "Activities", "Timeline", "Dashboard"}

\* The route navigateToX loads and waits for.
PageRoute(p) ==
  CASE p = "Jobs" -> <<"all-jobs">>
    [] p = "AddJob" -> <<"add-job">>
    [] p = "Activities" -> <<"activities">>
    [] p = "Timeline" -> <<"timeline">>
    [] p = "Dashboard" -> <<>>

isOnPage_exactOrigin(p, u) ==
  IF p = "Dashboard" THEN u = Origin ELSE Includes(u, <<"/">> \o PageRoute(p))

\* isOnJobsPage, isOnAddJobPage, isOnActivitiesPage, isOnTimelinePage:
\* url().includes(route); DashboardPage.isOnDashboard: url().endsWith('/').
isOnPage(p, u) ==
  IF p = "Dashboard" THEN EndsWith(u, <<"/">>)
  ELSE Includes(u, <<"/">> \o PageRoute(p))

\* page.waitForURL(route): the URL is baseURL + route, or the wait times out.
waitForUrl(route, u, label) == IF u = Route(route) THEN <<>> ELSE <<label>>

\* The error an un-guarded sequence of engine calls lets through: the first.
Propagated(raised) == IF raised = <<>> THEN "none" ELSE raised[1]

navigateToPage_swallowing(p, u, session, fallback) ==
  LET landed == Resolve(PageRoute(p), session, fallback)
  IN [url |-> landed,
      call |-> Call("navigateTo", p, waitForUrl(PageRoute(p), landed, "waitForURL"),
                    "none", isOnPage(p, u))]

\* navigateToJobs / AddJob / Activities / Timeline / Dashboard:
\* navigate(route) then waitForUrl(route).
navigateToPage(p, u, session, fallback) ==
  LET landed == Resolve(PageRoute(p), session, fallback)
      raised == waitForUrl(PageRoute(p), landed, "waitForURL")
  IN [url |-> landed,
      call |-> Call("navigateTo", p, raised, Propagated(raised), isOnPage(p, u))]

\* NavigationComponent.testDirectNavigation: every failure is caught and
\* recorded as 'failed'; the method itself returns.
RECURSIVE testDirectNavigation(_, _, _, _)
testDirectNavigation(pages, u, session, fallback) ==
  IF pages = <<>> THEN [url |-> u, raised |-> <<>>, results |-> <<>>]
  ELSE LET landed == Resolve(pages[1], session, fallback)
           r == waitForUrl(pages[1], landed, "waitForURL")
           rest == testDirectNavigation(Tail(pages), landed, session, fallback)
       IN [url |-> rest.url,
           raised |-> r \o rest.raised,
           results |-> <<IF r = <<>> THEN "success" ELSE "failed">> \o rest.results]

\* DashboardPage.waitForDashboardLoad, JobsPage.waitForJobsLoad and
\* ActivitiesPage.waitForActivitiesLoad: an un-guarded first wait (none for
\* Jobs), then a wait whose timeout is caught and answered by a second wait.
waitForLoad(first, primaryShown, fallbackShown) ==
  IF first # <<>> THEN [raised |-> first, error |-> first[1]]
  ELSE IF primaryShown THEN [raised |-> <<>>, error |-> "none"]
  ELSE IF fallbackShown
  THEN [raised |-> <<"waitForSelector:primary">>, error |-> "none"]
  ELSE [raised |-> <<"waitForSelector:primary", "waitForSelector:fallback">>,
        error |-> "waitForSelector:fallback"]

\* AuthPage.logout: click what is visible, then wait for '/landing'; when
\* that wait times out, wait 3 s and, unless the URL is an auth page, go to
\* '/landing' directly.
AuthPage_logout(clicked, u, session, fallback) ==
  LET afterClick == IF clicked THEN Route(fallback) ELSE u
      raised == waitForUrl(<<"landing">>, afterClick, "waitForURL:landing")
      onAuthPage == \/ Includes(afterClick, <<"/", "landing">>)
                    \/ Includes(afterClick, <<"/", "register">>)
  IN [url |-> IF raised # <<>> /\ ~onAuthPage THEN Route(<<"landing">>)
              ELSE afterClick,
      authed |-> session /\ ~clicked,
      call |-> Call("AuthPage.logout", IF clicked THEN "clicked" ELSE "none",
                    raised, "none", session /\ Protected(u))]

\* NavigationComponent.logout: open the user menu if need be, click the
\* logout control (the click times out when there is none), then wait for
\* '/register'.
NavigationComponent_logout(clickable, u, session, fallback) ==
  LET afterClick == IF clickable THEN Route(fallback) ELSE u
      raised == IF clickable
                THEN waitForUrl(<<"register">>, afterClick, "waitForURL:register")
                ELSE <<"click">>
  IN [url |-> afterClick,
      authed |-> session /\ ~clickable,
      call |-> Call("NavigationComponent.logout",
                    IF clickable THEN "clicked" ELSE "none",
                    raised, Propagated(raised), session /\ Protected(u))]

SessionInit ==
  /\ pc = "done"
  /\ retries = 0
  /\ attempts = [frontend |-> 0, backend |-> 0]
  /\ browsers = 0
  /\ users \in SUBSET Accounts
  /\ url = AboutBlank
  /\ authed = FALSE
  /\ loginRoute \in {<<"landing">>, <<"register">>}
  /\ last = NoCall

SessionFrame ==
  UNCHANGED <<queryVars, setupVars, formVars, dialogVars, moreVars, users,
              loginRoute>>

\* BasePage.clearCookies
ClearCookies ==
  /\ authed
  /\ authed' = FALSE
  /\ last' = Call("clearCookies", "none", <<>>, "none", FALSE)
  /\ UNCHANGED url
  /\ SessionFrame

\* BasePage.navigate(url)
Navigate(route) ==
  /\ url' = Resolve(route, authed, loginRoute)
  /\ last' = Call("navigate", "none", <<>>, "none", FALSE)
  /\ UNCHANGED authed
  /\ SessionFrame

NavigateToPage(p) ==
  /\ LET r == navigateToPage(p, url, authed, loginRoute)
     IN /\ url' = r.url
        /\ last' = r.call
  /\ UNCHANGED authed
  /\ SessionFrame

PerformLogin(credentials) ==
  /\ LET r == performLogin(credentials, users)
     IN /\ url' = r.url
        /\ authed' = (authed \/ r.authed)
        /\ last' = r.call
  /\ SessionFrame

TestDirectNavigation(pages) ==
  /\ LET r == testDirectNavigation(pages, url, authed, loginRoute)
     IN /\ url' = r.url
        /\ last' = Call("testDirectNavigation", r.results, r.raised, "none", FALSE)
  /\ UNCHANGED authed
  /\ SessionFrame

WaitForDashboardLoad(primaryShown, fallbackShown) ==
  /\ LET r == waitForLoad(waitForUrl(<<>>, url, "waitForURL"),
                          primaryShown, fallbackShown)
     IN last' = Call("waitForDashboardLoad", "none", r.raised, r.error, FALSE)
  /\ UNCHANGED <<url, authed>>
  /\ SessionFrame

WaitForJobsLoad(primaryShown, fallbackShown) ==
  /\ LET r == waitForLoad(<<>>, primaryShown, fallbackShown)
     IN last' = Call("waitForJobsLoad", "none", r.raised, r.error, FALSE)
  /\ UNCHANGED <<url, authed>>
  /\ SessionFrame

WaitForActivitiesLoad(titleShown, primaryShown, fallbackShown) ==
  /\ LET r == waitForLoad(IF titleShown THEN <<>> ELSE <<"waitForSelector:pageTitle">>,
                          primaryShown, fallbackShown)
     IN last' = Call("waitForActivitiesLoad", "none", r.raised, r.error, FALSE)
  /\ UNCHANGED <<url, authed>>
  /\ SessionFrame

\* The logout control is there to click only for a logged-in user on an
\* application page.
AuthLogout(clicked) ==
  /\ clicked => (authed /\ \E route \in ProtectedRoutes : url = Route(route))
  /\ LET r == AuthPage_logout(clicked, url, authed, loginRoute)
     IN /\ url' = r.url
        /\ authed' = r.authed
        /\ last' = r.call
  /\ SessionFrame

NavLogout(clickable) ==
  /\ clickable => (authed /\ Protected(url))
  /\ LET r == NavigationComponent_logout(clickable, url, authed, loginRoute)
     IN /\ url' = r.url
        /\ authed' = r.authed
        /\ last' = r.call
  /\ SessionFrame

\* Most pages one testDirectNavigation call is given in the model.
MaxPages == 2

PageLists == UNION {[1..n -> ProtectedRoutes] : n \in 1..MaxPages}

Next ==
  \/ ClearCookies
  \/ \E route \in ProtectedRoutes \cup PublicRoutes : Navigate(route)
  \/ \E p \in Pages : NavigateToPage(p)
  \/ \E credentials \in Accounts : PerformLogin(credentials)
  \/ \E pages \in PageLists : TestDirectNavigation(pages)
  \/ \E a, b \in BOOLEAN : WaitForDashboardLoad(a, b)
  \/ \E a, b \in BOOLEAN : WaitForJobsLoad(a, b)
  \/ \E a, b, c \in BOOLEAN : WaitForActivitiesLoad(a, b, c)
  \/ \E clicked \in BOOLEAN : AuthLogout(clicked)
  \/ \E clickable \in BOOLEAN : NavLogout(clickable)

(***************************************************************************)
(* AddJobPage: the form-filling workflow                                   *)
(***************************************************************************)
BasicFields == {"position", "company", "jobLocation", "jobType", "status"}

EnhancedFields == {"salaryMin", "salaryMax", "salaryCurrency", "jobDescription",
                   "companyWebsite", "jobPostingUrl", "applicationMethod", "notes"}

Phase2Fields == {"category", "tags", "priority"}

FormFields == BasicFields \cup EnhancedFields \cup Phase2Fields

\* An object literal with every key of `fields`; a key's value is named
\* after the key, so that a value written to the wrong field shows.
Full(fields) == [f \in fields |-> f]

Drop(obj, f) == [k \in DOMAIN obj \ {f} |-> obj[k]]

\* The object literals a scenario may pass for one group of fields: all
\* keys, none, one key left out, one key with the empty string.
Objects(fields) ==
  {Full(fields), Full({})}
    \cup {Drop(Full(fields), f) : f \in fields}
    \cup {[Full(fields) EXCEPT ![f] = ""] : f \in fields}

\* An optional sub-object: <<>> when the key is absent, <<obj>> otherwise.
Optional(objs) == {<<>>} \cup {<<o>> : o \in objs}

\* Job drafts: top-level fields plus the optional enhanced and phase2.
Drafts ==
  [basic : Objects(BasicFields),
   enhanced : Optional(Objects(EnhancedFields)),
   phase2 : Optional(Objects(Phase2Fields))]

\* if (data.key): the key is there and its value is not the empty string.
Truthy(data, key) == key \in DOMAIN data /\ data[key] # ""

fillFields_keyPresent(F, data, fields) ==
  [vals |-> [f \in FormFields |->
               IF f \in fields /\ f \in DOMAIN data THEN data[f] ELSE F.vals[f]],
   written |-> F.written \cup (fields \cap DOMAIN data)]

\* fillInput / selectOption on the locator of `key`, for every key of
\* `fields` that passes the if.
fillFields(F, data, fields) ==
  [vals |-> [f \in FormFields |->
               IF f \in fields /\ Truthy(data, f) THEN data[f] ELSE F.vals[f]],
   written |-> F.written \cup {f \in fields : Truthy(data, f)}]

fillBasicJobInfo(F, jobData) == fillFields(F, jobData.basic, BasicFields)

fillEnhancedJobInfo(F, enhancedData) == fillFields(F, enhancedData, EnhancedFields)

fillPhase2JobInfo(F, phase2Data) == fillFields(F, phase2Data, Phase2Fields)

fillCompleteJobForm_defaulting(F, jobData) ==
  LET F1 == fillBasicJobInfo(F, jobData)
      F2 == fillEnhancedJobInfo(F1, IF jobData.enhanced # <<>> THEN jobData.enhanced[1]
                                    ELSE Full(EnhancedFields))
  IN IF jobData.phase2 # <<>> THEN fillPhase2JobInfo(F2, jobData.phase2[1]) ELSE F2

fillCompleteJobForm(F, jobData) ==
  LET F1 == fillBasicJobInfo(F, jobData)
      F2 == IF jobData.enhanced # <<>>
            THEN fillEnhancedJobInfo(F1, jobData.enhanced[1]) ELSE F1
  IN IF jobData.phase2 # <<>> THEN fillPhase2JobInfo(F2, jobData.phase2[1]) ELSE F2

\* The nine inputs AddJobPage.getFormValues reads.
ReadFields == {"position", "company", "jobLocation", "jobType", "status",
               "salaryMin", "salaryMax", "category", "priority"}

getFormValues_copyPaste(vals) ==
  [f \in ReadFields |-> IF f = "salaryMax" THEN vals["salaryMin"] ELSE vals[f]]

getFormValues(vals) == [f \in ReadFields |-> vals[f]]

\* createTestJob's defaultJobData without the spread.
defaultJobData ==
  [basic |-> [position |-> "Test Software Engineer", company |-> "Test Company Inc",
              jobLocation |-> "Remote", jobType |-> "full-time", status |-> "pending"],
   enhanced |-> <<[salaryMin |-> "80000", salaryMax |-> "120000",
                   salaryCurrency |-> "USD", jobDescription |-> "Test job description",
                   companyWebsite |-> "https://testcompany.com",
                   jobPostingUrl |-> "https://testcompany.com/careers/engineer",
                   applicationMethod |-> "website", notes |-> "Test notes"]>>,
   phase2 |-> <<[category |-> "software-engineering",
                 tags |-> "javascript, react, node.js", priority |-> "medium"]>>]

\* tests/jobs.pom.spec.js, 'should display enhanced job fields in job cards'
enhancedJobData ==
  [basic |-> [position |-> "Data Scientist", company |-> "DataCorp",
              jobLocation |-> "Boston, MA"],
   enhanced |-> <<[salaryMin |-> "100000", salaryMax |-> "150000",
                   jobPostingUrl |-> "https://datacorp.com/jobs/data-scientist"]>>,
   phase2 |-> <<[priority |-> "high"]>>]

Overrides == Drafts \cup {enhancedJobData}

\* { ...defaults, ...overrides }: every own key of overrides replaces the
\* key of the same name, whatever its value is.
spread(defaults, overrides) ==
  [basic |-> [f \in DOMAIN defaults.basic \cup DOMAIN overrides.basic |->
                IF f \in DOMAIN overrides.basic THEN overrides.basic[f]
                ELSE defaults.basic[f]],
   enhanced |-> IF overrides.enhanced # <<>> THEN overrides.enhanced
                ELSE defaults.enhanced,
   phase2 |-> IF overrides.phase2 # <<>> THEN overrides.phase2
              ELSE defaults.phase2]

\* AddJobPage.createTestJob up to the click on submit: createJob of the
\* spread.
createTestJob(F, overrides) == fillCompleteJobForm(F, spread(defaultJobData, overrides))

NoFill ==
  [done |-> FALSE, method |-> "none", draft |-> "none", overrides |-> "none",
   before |-> "none", written |-> {}]

FormIdle ==
  /\ form = [f \in FormFields |-> ""]
  /\ fill = NoFill
  /\ readBack = <<>>

\* The form as a scenario finds it: empty (a new job) or holding a job being
\* edited, in which some field may be empty.
FormInit ==
  /\ form \in {[f \in FormFields |-> ""], [f \in FormFields |-> "old"]}
                \cup {[[f \in FormFields |-> "old"] EXCEPT ![g] = ""] : g \in {"notes", "tags"}}
  /\ fill = NoFill
  /\ readBack = <<>>

FormFrame == UNCHANGED <<queryVars, setupVars, sessionVars, dialogVars, moreVars>>

FillCompleteJobForm(jobData) ==
  /\ ~fill.done
  /\ LET F == fillCompleteJobForm([vals |-> form, written |-> {}], jobData)
     IN /\ form' = F.vals
        /\ fill' = [done |-> TRUE, method |-> "fillCompleteJobForm",
                    draft |-> jobData, overrides |-> "none", before |-> form,
                    written |-> F.written]
  /\ UNCHANGED readBack
  /\ FormFrame

\* createTestJob(overrides); the form's values at the click on submit are
\* the job that is submitted.
CreateTestJobWith(overrides) ==
  /\ ~fill.done
  /\ LET F == createTestJob([vals |-> form, written |-> {}], overrides)
     IN /\ form' = F.vals
        /\ fill' = [done |-> TRUE, method |-> "createTestJob",
                    draft |-> spread(defaultJobData, overrides),
                    overrides |-> overrides, before |-> form,
                    written |-> F.written]
  /\ UNCHANGED readBack
  /\ FormFrame

GetFormValues ==
  /\ fill.done
  /\ readBack = <<>>
  /\ readBack' = getFormValues(form)
  /\ UNCHANGED <<form, fill>>
  /\ FormFrame

FormNext ==
  \/ \E jobData \in Drafts : FillCompleteJobForm(jobData)
  \/ \E overrides \in Overrides : CreateTestJobWith(overrides)
  \/ GetFormValues

(***************************************************************************)
(* Native dialogs and BasePage.setupDialogHandler                          *)
(***************************************************************************)
\* Most 'dialog' listeners registered on one page in the model.
MaxListeners == 3

\* Most job cards, and most activity cards, on display in the model.
MaxCards == 2

NoDialog == [outcome |-> "none", calls |-> 0, rejected |-> 0, flow |-> "none"]

\* The page emits 'dialog': every listener runs, oldest first, and calls
\* accept() or dismiss(); the first call settles the dialog and each later
\* one is rejected as "already handled". Without a listener the dialog is
\* dismissed by the browser.
emitDialog(ls) ==
  IF ls = <<>> THEN [outcome |-> "dismissed", calls |-> 0, rejected |-> 0]
  ELSE [outcome |-> IF ls[1] THEN "accepted" ELSE "dismissed",
        calls |-> Len(ls), rejected |-> Len(ls) - 1]

\* setupDialogHandler(accept): this.page.on('dialog', ...) adds a listener.
setupDialogHandler(ls, accept) == Append(ls, accept)

\* The dialog a delete flow raised and what became of it.
Raised(flow, ls) == emitDialog(ls) @@ [flow |-> flow]

DialogIdle ==
  /\ listeners = <<>>
  /\ dialog = NoDialog
  /\ cards = [jobs |-> 0, activities |-> 0]

DialogInit ==
  /\ listeners = <<>>
  /\ dialog = NoDialog
  /\ cards \in [jobs : 0..MaxCards, activities : 0..MaxCards]

DialogFrame == UNCHANGED <<queryVars, setupVars, sessionVars, formVars, moreVars>>

SetupDialogHandler(accept) ==
  /\ Len(listeners) < MaxListeners
  /\ listeners' = setupDialogHandler(listeners, accept)
  /\ UNCHANGED <<dialog, cards>>
  /\ DialogFrame

\* JobsPage.deleteJobByCompany: registers an accepting listener, clicks the
\* card's Delete button; the application asks for confirmation.
DeleteJobByCompany ==
  /\ cards.jobs > 0
  /\ Len(listeners) < MaxListeners
  /\ LET ls == setupDialogHandler(listeners, TRUE)
         d == Raised("deleteJobByCompany", ls)
     IN /\ listeners' = ls
        /\ dialog' = d
        /\ cards' = IF d.outcome = "accepted"
                    THEN [cards EXCEPT !.jobs = @ - 1] ELSE cards
  /\ DialogFrame

\* ActivitiesPage.deleteFirstActivity: the same on the first activity card,
\* when there is one; otherwise it returns null and registers nothing.
DeleteFirstActivity ==
  /\ Len(listeners) < MaxListeners
  /\ IF cards.activities > 0
     THEN LET ls == setupDialogHandler(listeners, TRUE)
              d == Raised("deleteFirstActivity", ls)
          IN /\ listeners' = ls
             /\ dialog' = d
             /\ cards' = IF d.outcome = "accepted"
                         THEN [cards EXCEPT !.activities = @ - 1] ELSE cards
     ELSE UNCHANGED <<listeners, dialog, cards>>
  /\ DialogFrame

\* A scenario clicks a Delete button itself (tests/jobs.spec.js): the
\* confirmation dialog goes to whatever listeners there are.
ClickDelete ==
  /\ cards.jobs > 0
  /\ dialog' = Raised("click", listeners)
  /\ cards' = IF emitDialog(listeners).outcome = "accepted"
              THEN [cards EXCEPT !.jobs = @ - 1] ELSE cards
  /\ UNCHANGED listeners
  /\ DialogFrame

\* tests/jobs.spec.js, 'should delete a job': the test clicks the card's
\* Delete button and registers its accepting listener afterwards.
ShouldDeleteAJob ==
  /\ cards.jobs > 0
  /\ Len(listeners) < MaxListeners
  /\ LET d == Raised("should delete a job", listeners)
     IN /\ dialog' = d
        /\ cards' = IF d.outcome = "accepted"
                    THEN [cards EXCEPT !.jobs = @ - 1] ELSE cards
  /\ listeners' = Append(listeners, TRUE)
  /\ DialogFrame

\* tests/activities.spec.js, 'should delete activity with confirmation': when
\* an activity card is on display the test registers an accepting listener
\* and then clicks the card's Delete button.
ShouldDeleteActivity ==
  /\ Len(listeners) < MaxListeners
  /\ IF cards.activities > 0
     THEN LET ls == Append(listeners, TRUE)
              d == Raised("should delete activity with confirmation", ls)
          IN /\ listeners' = ls
             /\ dialog' = d
             /\ cards' = IF d.outcome = "accepted"
                         THEN [cards EXCEPT !.activities = @ - 1] ELSE cards
     ELSE UNCHANGED <<listeners, dialog, cards>>
  /\ DialogFrame

DialogNext ==
  \/ \E accept \in BOOLEAN : SetupDialogHandler(accept)
  \/ DeleteJobByCompany
  \/ DeleteFirstActivity
  \/ ClickDelete
  \/ ShouldDeleteAJob
  \/ ShouldDeleteActivity

(***************************************************************************)
(* One test case's actions: awaited calls and Promise.all                  *)
(***************************************************************************)
\* Test bodies. A step is what one `await` waits for: a single call, or the
\* calls handed to Promise.all.
ValidLogin ==
  << <<"navigateToAuth">>, <<"login">>, <<"toHaveURL">>, <<"isUserInfoVisible">> >>

ToggleModes ==
  << <<"navigateToAuth">>, <<"getPageTitle">>, <<"switchToRegister">>,
     <<"getPageTitle">>, <<"isNameFieldVisible">>, <<"switchToLogin">>,
     <<"getPageTitle">>, <<"isNameFieldVisible">> >>

LogoutUser ==
  << <<"performLogin">>, <<"waitForDashboardLoad">>, <<"logout">>,
     <<"toHaveURL">>, <<"getPageTitle">> >>

RapidSubmissions ==
  << <<"fillLoginForm">>, <<"submitForm", "submitForm", "waitForURL">>,
     <<"isOnDashboard">> >>

RapidInteractions ==
  << <<"navigateToAuth">>, <<"fillLoginForm">>, <<"submitForm", "waitForURL">>,
     <<"isOnDashboard">> >>

Scripts == {ValidLogin, ToggleModes, LogoutUser, RapidSubmissions, RapidInteractions}

startStep_unawaited(body, i) ==
  UNION {{<<j, k>> : k \in DOMAIN body[j]} : j \in {i, i + 1} \cap DOMAIN body}

\* Evaluating the operand of the i-th await calls each of its actions, in
\* order; <<i, k>> is the k-th of them.
startStep(body, i) == {<<i, k>> : k \in DOMAIN body[i]}

RunIdle ==
  /\ script = <<>>
  /\ step = 0
  /\ inflight = {}
  /\ settled = <<>>
  /\ status = "idle"

RunInit ==
  /\ script \in Scripts
  /\ step = 0
  /\ inflight = {}
  /\ settled = <<>>
  /\ status = "running"

RunFrame ==
  UNCHANGED <<queryVars, setupVars, sessionVars, formVars, dialogVars,
              historyVars, authFormVars, timelineVars, filterVars,
              emailVars, workerVars, activityVars, urlVars>>

\* The test body reaches its next await and starts what it waits for.
Await ==
  /\ status = "running"
  /\ inflight = {}
  /\ step < Len(script)
  /\ step' = step + 1
  /\ inflight' = startStep(script, step + 1)
  /\ UNCHANGED <<script, settled, status>>
  /\ RunFrame

\* An action in flight resolves; the await resumes once every action of the
\* step has, and the test passes after its last step.
Fulfil(a) ==
  /\ a \in inflight
  /\ inflight' = inflight \ {a}
  /\ settled' = Append(settled, a)
  /\ status' = IF status = "running" /\ inflight = {a} /\ step = Len(script)
               THEN "passed" ELSE status
  /\ UNCHANGED <<script, step>>
  /\ RunFrame

\* An action in flight rejects (a timeout): the await, Promise.all included,
\* rejects at once and the test fails, whatever else is still in flight.
Reject(a) ==
  /\ a \in inflight
  /\ inflight' = inflight \ {a}
  /\ settled' = Append(settled, a)
  /\ status' = IF status = "running" THEN "failed" ELSE status
  /\ UNCHANGED <<script, step>>
  /\ RunFrame

RunNext ==
  \/ Await
  \/ \E a \in inflight : Fulfil(a)
  \/ \E a \in inflight : Reject(a)

(***************************************************************************)
(* The session with the browser's history: goBack, goForward               *)
(***************************************************************************)
\* Most entries the tab's history holds in the model.
MaxHistory == 5

\* String.prototype.split('/') on a URL.
RECURSIVE Split(_)
Split(u) ==
  IF u = <<>> THEN <<"">>
  ELSE IF Head(u) = "/" THEN <<"">> \o Split(Tail(u))
  ELSE IF Len(u) = 1 THEN u
  ELSE <<Head(u)>> \o Split(Tail(Tail(u)))

\* parts[i] of a JavaScript array (0-based), undefined past its end.
At(parts, i) == IF i + 1 \in DOMAIN parts THEN parts[i + 1] ELSE "undefined"

\* url === `${url.split('/')[0]}//${url.split('/')[2]}/`
isExactlyOrigin(u) == u = <<At(Split(u), 0), "/", "/", At(Split(u), 2), "/">>

Showing(H) == H.history[H.cursor]

\* A navigation adds an entry after the current one and drops the entries
\* ahead of it.
pushEntry(H, u) ==
  [history |-> SubSeq(H.history, 1, H.cursor) \o <<u>>, cursor |-> H.cursor + 1]

replaceEntry(H, u) == [H EXCEPT !.history[H.cursor] = u]

guard_none(H, session, fallback, replacing) == H

\* The application's route guard runs on whatever entry comes on display: a
\* protected route without a session is redirected to the login route, by
\* replacing the entry or by adding one.
guard(H, session, fallback, replacing) ==
  IF Protected(Showing(H)) /\ ~session
  THEN IF replacing THEN replaceEntry(H, Route(fallback))
       ELSE pushEntry(H, Route(fallback))
  ELSE H

goBack_twice(H) == [H EXCEPT !.cursor = IF @ > 2 THEN @ - 2 ELSE 1]

\* page.goBack() / page.goForward(): one entry back or ahead, when there is
\* one.
goBack(H) == IF H.cursor > 1 THEN [H EXCEPT !.cursor = @ - 1] ELSE H

goForward(H) == IF H.cursor < Len(H.history) THEN [H EXCEPT !.cursor = @ + 1] ELSE H

\* NavigationComponent.goToX: click the link, waitForUrl(route).
goTo(H, route) == pushEntry(H, Route(route))

\* NavigationComponent.testBrowserNavigation, on a page that shows the
\* navigation links.
testBrowserNavigation(H) ==
  LET H1 == goTo(goTo(H, <<"all-jobs">>), <<"add-job">>)
      H2 == goBack(H1)
      H3 == goBack(H2)
      H4 == goForward(H3)
  IN [H |-> H4,
      results |-> [backToAllJobs |-> Includes(Showing(H2), <<"/", "all-jobs">>),
                   backToDashboard |-> isExactlyOrigin(Showing(H3)),
                   forwardToAllJobs |-> Includes(Showing(H4), <<"/", "all-jobs">>)]]

HistoryIdle ==
  /\ history = <<AboutBlank>>
  /\ cursor = 1

\* The backend holds the seeded test user.
HistoryInit ==
  /\ SessionInit
  /\ users = {TestUser}
  /\ history = <<AboutBlank>>
  /\ cursor = 1

HistoryFrame ==
  UNCHANGED <<queryVars, setupVars, formVars, dialogVars, runVars,
              authFormVars, timelineVars, filterVars, users, loginRoute,
              emailVars, workerVars, activityVars, urlVars>>

Tab == [history |-> history, cursor |-> cursor]

\* The tab moves to H: its entry on display is page.url().
Show(H) ==
  /\ history' = H.history
  /\ cursor' = H.cursor
  /\ url' = Showing(H)

\* The navigation links are on display for a logged-in user on an
\* application page.
LinksShown == authed /\ Protected(url)

\* BasePage.clearCookies, with the page left as it is.
HistoryClearCookies ==
  /\ authed
  /\ authed' = FALSE
  /\ last' = Call("clearCookies", url, <<>>, "none", FALSE)
  /\ UNCHANGED <<url, historyVars>>
  /\ HistoryFrame

\* page.goto(route) / BasePage.navigate(route)
Goto(route, replacing) ==
  /\ cursor + 2 <= MaxHistory
  /\ Show(guard(pushEntry(Tab, Route(route)), authed, loginRoute, replacing))
  /\ last' = Call("goto", Route(route), <<>>, "none", authed)
  /\ UNCHANGED authed
  /\ HistoryFrame

\* AuthPage.performLogin: navigateToAuth, login; the application moves on to
\* '/' when it accepts the credentials.
HistoryLogin(credentials) ==
  /\ cursor + 2 <= MaxHistory
  /\ LET r == performLogin(credentials, users)
         H1 == pushEntry(Tab, Route(<<"register">>))
     IN /\ Show(IF r.authed THEN pushEntry(H1, r.url) ELSE H1)
        /\ authed' = (authed \/ r.authed)
        /\ last' = r.call
  /\ HistoryFrame

\* NavigationComponent.goToAllJobs / goToAddJob / goToStats
GoTo(route) ==
  /\ cursor + 1 <= MaxHistory
  /\ LinksShown
  /\ Show(goTo(Tab, route))
  /\ last' = Call("goTo", Route(route), <<>>, "none", authed)
  /\ UNCHANGED authed
  /\ HistoryFrame

\* BasePage.goBack
GoBack(replacing) ==
  /\ cursor + 1 <= MaxHistory
  /\ Show(guard(goBack(Tab), authed, loginRoute, replacing))
  /\ last' = Call("goBack", Showing(goBack(Tab)), <<>>, "none", authed)
  /\ UNCHANGED authed
  /\ HistoryFrame

\* BasePage.goForward
GoForward(replacing) ==
  /\ cursor + 1 <= MaxHistory
  /\ Show(guard(goForward(Tab), authed, loginRoute, replacing))
  /\ last' = Call("goForward", Showing(goForward(Tab)), <<>>, "none", authed)
  /\ UNCHANGED authed
  /\ HistoryFrame

\* AuthPage.logout with its control on display: the application drops the
\* session and moves to its login route.
HistoryLogout ==
  /\ cursor + 1 <= MaxHistory
  /\ LinksShown
  /\ LET r == AuthPage_logout(TRUE, url, authed, loginRoute)
     IN /\ Show(pushEntry(Tab, r.url))
        /\ authed' = r.authed
        /\ last' = r.call
  /\ HistoryFrame

\* NavigationComponent.testBrowserNavigation; without the links on display
\* its first click times out.
TestBrowserNavigation ==
  /\ cursor + 2 <= MaxHistory
  /\ IF LinksShown
     THEN LET r == testBrowserNavigation(Tab)
          IN /\ Show(r.H)
             /\ last' = Call("testBrowserNavigation", r.results, <<>>, "none",
                             isExactlyOrigin(url))
     ELSE /\ last' = Call("testBrowserNavigation", "none", <<"click">>, "click",
                          FALSE)
          /\ UNCHANGED <<url, historyVars>>
  /\ UNCHANGED authed
  /\ HistoryFrame

\* The routes the back/forward and route-protection scenarios visit.
VisitedRoutes == {<<>>, <<"all-jobs">>, <<"add-job">>, <<"landing">>, <<"register">>}

HistoryNext ==
  \/ HistoryClearCookies
  \/ \E route \in VisitedRoutes, replacing \in BOOLEAN : Goto(route, replacing)
  \/ \E credentials \in Accounts : HistoryLogin(credentials)
  \/ \E route \in VisitedRoutes \cap ProtectedRoutes : GoTo(route)
  \/ \E replacing \in BOOLEAN : GoBack(replacing)
  \/ \E replacing \in BOOLEAN : GoForward(replacing)
  \/ HistoryLogout
  \/ TestBrowserNavigation

(***************************************************************************)
(* The login / register form and AuthPage's mode switches                  *)
(***************************************************************************)
Modes == {"login", "register"}

\* What a test types into the form.
Typed == {"", "typed"}

\* The AuthPage locators that match a visible element: the name input shows
\* in register mode only, and the mode-switch control, once rendered, reads
\* "Register" in login mode and "Login" in register mode.
Visible(F) ==
  {"emailInput", "passwordInput", "submitButton"}
    \cup (IF F.mode = "register" THEN {"nameInput"} ELSE {})
    \cup (IF ~F.toggle THEN {}
          ELSE IF F.mode = "login" THEN {"signUpButton"} ELSE {"signInButton"})

\* A click on the mode-switch control.
toggleMode(F) ==
  [F EXCEPT !.mode = IF @ = "login" THEN "register" ELSE "login"]

\* AuthPage.switchToRegister / switchToLogin: click the control if
\* isVisible() says it is there now, else do nothing.
switchToRegister(F) == IF "signUpButton" \in Visible(F) THEN toggleMode(F) ELSE F

switchToLogin(F) == IF "signInButton" \in Visible(F) THEN toggleMode(F) ELSE F

isNameFieldVisible(F) == "nameInput" \in Visible(F)

NoProbe == [op |-> "none", switch |-> "none", result |-> FALSE, threw |-> FALSE]

AuthFormIdle ==
  /\ authForm = [mode |-> "login", toggle |-> FALSE, name |-> "", email |-> "",
                 password |-> ""]
  /\ probe = NoProbe

\* The form right after navigateToAuth: in either mode, inputs empty, the
\* mode-switch control rendered already or not yet.
AuthFormInit ==
  /\ authForm \in [mode : Modes, toggle : BOOLEAN, name : {""}, email : {""},
                   password : {""}]
  /\ probe = NoProbe

AuthFormFrame ==
  UNCHANGED <<queryVars, setupVars, sessionVars, formVars, dialogVars, runVars,
              historyVars, timelineVars, filterVars,
              emailVars, workerVars, activityVars, urlVars>>

\* The application finishes rendering the mode-switch control.
RenderToggle ==
  /\ ~authForm.toggle
  /\ authForm' = [authForm EXCEPT !.toggle = TRUE]
  /\ UNCHANGED probe
  /\ AuthFormFrame

SwitchToRegister ==
  /\ authForm' = switchToRegister(authForm)
  /\ probe' = [op |-> "switchToRegister", switch |-> "register",
               result |-> FALSE, threw |-> FALSE]
  /\ AuthFormFrame

SwitchToLogin ==
  /\ authForm' = switchToLogin(authForm)
  /\ probe' = [op |-> "switchToLogin", switch |-> "login", result |-> FALSE,
               threw |-> FALSE]
  /\ AuthFormFrame

\* probe.switch keeps the last mode switch called before this query.
IsNameFieldVisible ==
  /\ probe' = [probe EXCEPT !.op = "isNameFieldVisible",
                            !.result = isNameFieldVisible(authForm),
                            !.threw = FALSE]
  /\ UNCHANGED authForm
  /\ AuthFormFrame

\* AuthPage.fillLoginForm: switchToLogin, then fill email and password.
FillLoginForm(email, password) ==
  /\ authForm' = [switchToLogin(authForm) EXCEPT !.email = email,
                                                 !.password = password]
  /\ probe' = [op |-> "fillLoginForm", switch |-> "login", result |-> FALSE,
               threw |-> FALSE]
  /\ AuthFormFrame

\* AuthPage.fillRegistrationForm: switchToRegister, wait 1 s (the control may
\* render meanwhile), then fill name, email and password; the fill of the
\* name input times out when the form shows none.
FillRegistrationForm(name, email, password, rendered) ==
  /\ LET F == switchToRegister(authForm)
         G == [F EXCEPT !.toggle = @ \/ rendered]
     IN IF isNameFieldVisible(G)
        THEN /\ authForm' = [G EXCEPT !.name = name, !.email = email,
                                      !.password = password]
             /\ probe' = [op |-> "fillRegistrationForm", switch |-> "register",
                          result |-> FALSE, threw |-> FALSE]
        ELSE /\ authForm' = G
             /\ probe' = [op |-> "fillRegistrationForm", switch |-> "register",
                          result |-> FALSE, threw |-> TRUE]
  /\ AuthFormFrame

\* AuthPage.fillRegistrationForm as an operator: the form afterwards, and
\* whether the fill of the name input timed out.
fillRegistrationForm(F, userData, rendered) ==
  LET G == [switchToRegister(F) EXCEPT !.toggle = @ \/ rendered]
  IN IF isNameFieldVisible(G)
     THEN [form |-> [G EXCEPT !.name = userData.name, !.email = userData.email,
                              !.password = userData.password],
           threw |-> FALSE]
     ELSE [form |-> G, threw |-> TRUE]

fillLoginForm(F, credentials) ==
  [switchToLogin(F) EXCEPT !.email = credentials.email,
                           !.password = credentials.password]

\* AuthPage.register: fillRegistrationForm, then the click on submit, which
\* sends the form as it stands; nothing is sent when the fill threw.
Register(userData, rendered) ==
  /\ LET R == fillRegistrationForm(authForm, userData, rendered)
     IN /\ authForm' = R.form
        /\ probe' = [op |-> "register", switch |-> "register", result |-> FALSE,
                     threw |-> R.threw]
                      @@ [given |-> userData,
                          submitted |-> IF R.threw THEN <<>> ELSE <<R.form>>]
  /\ AuthFormFrame

\* AuthPage.login: fillLoginForm, then the click on submit.
Login(credentials) ==
  /\ LET G == fillLoginForm(authForm, credentials)
     IN /\ authForm' = G
        /\ probe' = [op |-> "login", switch |-> "login", result |-> FALSE,
                     threw |-> FALSE]
                      @@ [given |-> credentials, submitted |-> <<G>>]
  /\ AuthFormFrame

AuthFormNext ==
  \/ RenderToggle
  \/ SwitchToRegister
  \/ SwitchToLogin
  \/ IsNameFieldVisible
  \/ \E email, password \in Typed : FillLoginForm(email, password)
  \/ \E name, email, password \in Typed, rendered \in BOOLEAN :
       FillRegistrationForm(name, email, password, rendered)
  \/ \E userData \in [name : Typed, email : Typed, password : Typed],
        rendered \in BOOLEAN : Register(userData, rendered)
  \/ \E credentials \in [email : Typed, password : Typed] : Login(credentials)

(***************************************************************************)
(* TimelinePage: the view-mode controls                                    *)
(***************************************************************************)
\* Most jobs the job selector offers in the model.
MaxJobs == 2

\* How the application may mark up a control button: text only, or an icon
\* element in front of the text.
Markups == {"text", "icon"}

\* A view-mode button as an element: its own classes and the classes of the
\* elements inside it. The button of the mode in force carries btn-primary
\* itself (tests/navigation.spec.js: button:has-text("By Job").btn-primary).
Button(T, mode) ==
  [classes |-> {"btn"} \cup (IF T.mode = mode THEN {"btn-primary"} ELSE {"btn-hipster"}),
   inside |-> IF T.markup = "icon" THEN {{"icon"}} ELSE {}]

\* button.locator('.btn-primary').isVisible(): an element with the class
\* inside the button.
isButtonActive(b) == \E classes \in b.inside : "btn-primary" \in classes

isAllActivitiesButtonActive(T) == isButtonActive(Button(T, "all"))

isByJobButtonActive(T) == isButtonActive(Button(T, "byJob"))

\* select#jobSelect shows in by-job mode only.
isJobSelectorVisible(T) == T.mode = "byJob"

switchToByJobMode(T) == [T EXCEPT !.mode = "byJob"]

switchToAllActivitiesMode(T) == [T EXCEPT !.mode = "all"]

testViewModeToggle(T) ==
  LET T1 == switchToByJobMode(T)
      T2 == switchToAllActivitiesMode(T1)
  IN [T |-> T2,
      flags |-> [initialAllActivitiesActive |-> isAllActivitiesButtonActive(T),
                 byJobActive |-> isByJobButtonActive(T1),
                 jobSelectorVisibleInByJobMode |-> isJobSelectorVisible(T1),
                 allActivitiesActiveAgain |-> isAllActivitiesButtonActive(T2),
                 jobSelectorHiddenInAllActivitiesMode |-> ~isJobSelectorVisible(T2)]]

NoView == [op |-> "none", startedIn |-> "none", threw |-> FALSE, flags |-> <<>>]

TimelineIdle ==
  /\ timeline = [mode |-> "all", jobs |-> 0, selected |-> 0, markup |-> "text"]
  /\ view = NoView

\* The timeline page opens in all-activities mode with nothing selected.
TimelineInit ==
  /\ timeline \in [mode : {"all"}, jobs : 0..MaxJobs, selected : {0},
                   markup : Markups]
  /\ view = NoView

TimelineFrame ==
  UNCHANGED <<queryVars, setupVars, sessionVars, formVars, dialogVars, runVars,
              historyVars, authFormVars, filterVars,
              emailVars, workerVars, activityVars, urlVars>>

Viewed(op, flags) ==
  [op |-> op, startedIn |-> timeline.mode, threw |-> FALSE, flags |-> flags]

SwitchToByJobMode ==
  /\ timeline' = switchToByJobMode(timeline)
  /\ view' = Viewed("switchToByJobMode", <<>>)
  /\ TimelineFrame

SwitchToAllActivitiesMode ==
  /\ timeline' = switchToAllActivitiesMode(timeline)
  /\ view' = Viewed("switchToAllActivitiesMode", <<>>)
  /\ TimelineFrame

\* TimelinePage.selectJob: selectOption on select#jobSelect, which times out
\* while the selector is not on display.
SelectJob(job) ==
  /\ IF isJobSelectorVisible(timeline)
     THEN /\ timeline' = [timeline EXCEPT !.selected = job]
          /\ view' = Viewed("selectJob", <<>>)
     ELSE /\ view' = [Viewed("selectJob", <<>>) EXCEPT !.threw = TRUE]
          /\ UNCHANGED timeline
  /\ TimelineFrame

IsAllActivitiesButtonActive ==
  /\ view' = Viewed("isAllActivitiesButtonActive",
                    <<isAllActivitiesButtonActive(timeline)>>)
  /\ UNCHANGED timeline
  /\ TimelineFrame

IsByJobButtonActive ==
  /\ view' = Viewed("isByJobButtonActive", <<isByJobButtonActive(timeline)>>)
  /\ UNCHANGED timeline
  /\ TimelineFrame

IsJobSelectorVisible ==
  /\ view' = Viewed("isJobSelectorVisible", <<isJobSelectorVisible(timeline)>>)
  /\ UNCHANGED timeline
  /\ TimelineFrame

TestViewModeToggle ==
  /\ LET r == testViewModeToggle(timeline)
     IN /\ timeline' = r.T
        /\ view' = Viewed("testViewModeToggle", r.flags)
  /\ TimelineFrame

TimelineNext ==
  \/ SwitchToByJobMode
  \/ SwitchToAllActivitiesMode
  \/ \E job \in 1..MaxJobs : job <= timeline.jobs /\ SelectJob(job)
  \/ IsAllActivitiesButtonActive
  \/ IsByJobButtonActive
  \/ IsJobSelectorVisible
  \/ TestViewModeToggle

(***************************************************************************)
(* JobsPage: search and filter controls                                    *)
(***************************************************************************)
\* The controls, in the order applyFilters goes through them.
FilterKeys == <<"search", "status", "type", "category", "priority", "sort">>

\* The values a control may hold in the model; the first is the one the
\* application's Clear Filters button puts back.
FilterValues ==
  [search |-> <<"", "Developer">>,
   status |-> <<"all", "interview", "pending">>,
   type |-> <<"all", "remote", "full-time">>,
   category |-> <<"all", "software">>,
   priority |-> <<"all", "high">>,
   sort |-> <<"latest", "a-z">>]

Keys == {FilterKeys[i] : i \in DOMAIN FilterKeys}

Values(key) == {FilterValues[key][i] : i \in DOMAIN FilterValues[key]}

DeveloperInterviewRemote ==
  [search |-> "Developer", status |-> "interview", type |-> "remote"]

\* Filter objects passed to applyFilters.
FilterObjects ==
  {DeveloperInterviewRemote,
   [status |-> "pending"],
   [search |-> "", type |-> "full-time"],
   [sort |-> "a-z", search |-> "Developer"],
   [category |-> "software", priority |-> "high", sort |-> "a-z"]}

\* searchJobs / filterByX / sortJobs, one after the other, each under
\* if (filters.key).
\* searchJobs / filterByStatus / ... / sortJobs on one control: the control
\* takes the value, and the call is noted in `touched`.
setControl(S, key, value) ==
  [values |-> [S.values EXCEPT ![key] = value],
   touched |-> Append(S.touched, key)]

RECURSIVE applyFrom_keyPresent(_, _, _)
applyFrom_keyPresent(S, given, i) ==
  IF i > Len(FilterKeys) THEN S
  ELSE LET key == FilterKeys[i]
       IN applyFrom_keyPresent(IF key \in DOMAIN given
                               THEN setControl(S, key, given[key]) ELSE S,
                               given, i + 1)

\* The six guarded calls of applyFilters from the i-th on.
RECURSIVE applyFrom(_, _, _)
applyFrom(S, given, i) ==
  IF i > Len(FilterKeys) THEN S
  ELSE LET key == FilterKeys[i]
       IN applyFrom(IF Truthy(given, key) THEN setControl(S, key, given[key]) ELSE S,
                    given, i + 1)

applyFilters(F, given) == applyFrom([values |-> F, touched |-> <<>>], given, 1)

clearFilters_searchOnly(F) == [F EXCEPT !["search"] = ""]

\* JobsPage.clearFilters: a click on Clear Filters, which puts every control
\* back to its first value.
clearFilters(F) == [key \in Keys |-> FilterValues[key][1]]

\* JobsPage.getCurrentFilters: inputValue() of each control.
getCurrentFilters(F) == [key \in Keys |-> F[key]]

NoApplied == [given |-> <<>>, before |-> <<>>, touched |-> <<>>]

FilterIdle ==
  /\ filters = [key \in Keys |-> FilterValues[key][1]]
  /\ trail = <<"none", "none">>
  /\ current = <<>>
  /\ applied = NoApplied

\* The listing with whatever filter values were applied beforehand.
FilterInit ==
  /\ filters \in [search : Values("search"), status : Values("status"),
                  type : Values("type"), category : Values("category"),
                  priority : Values("priority"), sort : Values("sort")]
  /\ trail = <<"none", "none">>
  /\ current = <<>>
  /\ applied = NoApplied

FilterFrame ==
  UNCHANGED <<queryVars, setupVars, sessionVars, formVars, dialogVars, runVars,
              historyVars, authFormVars, timelineVars,
              emailVars, workerVars, activityVars, urlVars>>

ApplyFilters(given) ==
  /\ filters' = applyFilters(filters, given).values
  /\ applied' = [given |-> given, before |-> filters,
                 touched |-> applyFilters(filters, given).touched]
  /\ trail' = <<trail[2], IF given = DeveloperInterviewRemote
                          THEN "applyFilters:DeveloperInterviewRemote"
                          ELSE "applyFilters">>
  /\ current' = <<>>
  /\ FilterFrame

ClearFilters ==
  /\ filters' = clearFilters(filters)
  /\ trail' = <<trail[2], "clearFilters">>
  /\ current' = <<>>
  /\ applied' = NoApplied
  /\ FilterFrame

GetCurrentFilters ==
  /\ current = <<>>
  /\ current' = getCurrentFilters(filters)
  /\ UNCHANGED <<filters, trail, applied>>
  /\ FilterFrame

FilterNext ==
  \/ \E given \in FilterObjects : ApplyFilters(given)
  \/ ClearFilters
  \/ GetCurrentFilters

(***************************************************************************)
(* Parallel workers                                                        *)
(***************************************************************************)
\* playwright.config.js: fullyParallel with five browser projects and, off
\* CI, as many workers as Playwright chooses.  The model runs MaxWorkers.
MaxWorkers == 3

Workers == 1..MaxWorkers

(***************************************************************************)
(* AuthPage.generateTestEmail                                              *)
(***************************************************************************)
\* Milliseconds the model's clock can show, and calls it follows.
MaxClock == 3

MaxCalls == 3

\* `test${timestamp}@jobtrack.com` with timestamp = Date.now()
generateTestEmail(timestamp) == <<"test", timestamp, "@jobtrack.com">>

EmailIdle ==
  /\ clock = 0
  /\ emails = <<>>

EmailInit ==
  /\ clock \in 0..1
  /\ emails = <<>>

EmailFrame ==
  UNCHANGED <<queryVars, setupVars, sessionVars, formVars, dialogVars, runVars,
              historyVars, authFormVars, timelineVars, filterVars, workerVars,
              activityVars, urlVars>>

\* A millisecond goes by.
Tick ==
  /\ clock < MaxClock
  /\ clock' = clock + 1
  /\ UNCHANGED emails
  /\ EmailFrame

GenerateTestEmail(worker) ==
  /\ Len(emails) < MaxCalls
  /\ emails' = Append(emails, [worker |-> worker,
                               email |-> generateTestEmail(clock)])
  /\ UNCHANGED clock
  /\ EmailFrame

EmailNext ==
  \/ Tick
  \/ \E worker \in Workers : GenerateTestEmail(worker)

(***************************************************************************)
(* tests/jobs.pom.spec.js: 'should delete a job', once per worker          *)
(***************************************************************************)
\* The statements of the test, in order.
Statements ==
  <<"createTestJob", "goToAllJobs", "deleteJobByCompany",
    "jobCardContainsText", "done">>

StatementAfter(statement) ==
  Statements[(CHOOSE i \in DOMAIN Statements : Statements[i] = statement) + 1]

\* JobsPage.getJobCardByCompany: the cards on the page that hold the company
\* name; every instance of the test uses the same name.
getJobCardByCompany(onPage) == onPage

\* A locator action in strict mode: nothing to act on (the click waits and
\* times out), one element, or more than one (strict mode violation).
Resolved(matching) ==
  IF matching = {} THEN "timeout"
  ELSE IF Cardinality(matching) = 1 THEN "one"
  ELSE "strict mode violation"

WorkerIdle ==
  /\ jobs = {}
  /\ at = [worker \in Workers |-> "done"]
  /\ shown = [worker \in Workers |-> {}]
  /\ outcome = [worker \in Workers |-> "none"]

\* Every worker logged in as the test user by beforeEach, about to run the
\* test body; the user has no 'DeleteTest LLC' job yet.
WorkerInit ==
  /\ jobs = {}
  /\ at = [worker \in Workers |-> "createTestJob"]
  /\ shown = [worker \in Workers |-> {}]
  /\ outcome = [worker \in Workers |-> "none"]

WorkerFrame ==
  UNCHANGED <<queryVars, setupVars, sessionVars, formVars, dialogVars, runVars,
              historyVars, authFormVars, timelineVars, filterVars, emailVars,
              activityVars, urlVars>>

Advance(worker) == [at EXCEPT ![worker] = StatementAfter(at[worker])]

Ended(worker, how) ==
  /\ at' = [at EXCEPT ![worker] = "done"]
  /\ outcome' = [outcome EXCEPT ![worker] = how]

\* addJobPage.createTestJob(jobToDelete): the test user gets one more job of
\* company 'DeleteTest LLC'.
CreateTestJob(worker) ==
  /\ at[worker] = "createTestJob"
  /\ jobs' = jobs \cup {worker}
  /\ at' = Advance(worker)
  /\ UNCHANGED <<shown, outcome>>
  /\ WorkerFrame

\* navigation.goToAllJobs(): the page loads the user's jobs as they are now.
GoToAllJobs(worker) ==
  /\ at[worker] = "goToAllJobs"
  /\ shown' = [shown EXCEPT ![worker] = jobs]
  /\ at' = Advance(worker)
  /\ UNCHANGED <<jobs, outcome>>
  /\ WorkerFrame

\* jobsPage.deleteJobByCompany('DeleteTest LLC'): click Delete inside the
\* matching card and accept the confirmation.  Afterwards the page shows
\* either the user's jobs fetched again or its old list without the card.
DeleteOwnJob(worker, refetched) ==
  /\ at[worker] = "deleteJobByCompany"
  /\ LET matching == getJobCardByCompany(shown[worker])
     IN IF Resolved(matching) = "one"
        THEN /\ jobs' = jobs \ matching
             /\ shown' = [shown EXCEPT ![worker] =
                            IF refetched THEN jobs \ matching ELSE @ \ matching]
             /\ at' = Advance(worker)
             /\ UNCHANGED outcome
        ELSE /\ Ended(worker, Resolved(matching))
             /\ UNCHANGED <<jobs, shown>>
  /\ WorkerFrame

\* expect(await jobsPage.jobCardContainsText('DeleteTest LLC')).toBe(false)
JobCardContainsText(worker) ==
  /\ at[worker] = "jobCardContainsText"
  /\ Ended(worker, CASE Resolved(shown[worker]) = "timeout" -> "passed"
                     [] Resolved(shown[worker]) = "one" -> "expected false, received true"
                     [] OTHER -> "strict mode violation")
  /\ UNCHANGED <<jobs, shown>>
  /\ WorkerFrame

\* Another worker's page fetches the listing again (the 2 s wait of
\* deleteJobByCompany gives the page time to do so).
Refetch(worker) ==
  /\ at[worker] \in {"deleteJobByCompany", "jobCardContainsText"}
  /\ shown[worker] # jobs
  /\ shown' = [shown EXCEPT ![worker] = jobs]
  /\ UNCHANGED <<jobs, at, outcome>>
  /\ WorkerFrame

WorkerNext ==
  \E worker \in Workers :
    \/ CreateTestJob(worker)
    \/ GoToAllJobs(worker)
    \/ \E refetched \in BOOLEAN : DeleteOwnJob(worker, refetched)
    \/ JobCardContainsText(worker)
    \/ Refetch(worker)

(***************************************************************************)
(* ActivitiesPage: reading the activity cards                              *)
(***************************************************************************)
\* Most activity cards on display in the model.
MaxActivities == 2

\* Text is a sequence of tokens: words, "-" and " ".  The activity types of
\* the filter, as the option values spell them.
ActivityTypes ==
  {<<"application", "-", "sent">>, <<"email", "-", "sent">>,
   <<"interview", "-", "scheduled">>, <<"follow", "-", "up", "-", "sent">>,
   <<"offer", "-", "received">>}

\* The capitalised spelling of the words the cards show.
Capitalised ==
  [application |-> "Application", sent |-> "Sent", email |-> "Email",
   interview |-> "Interview", scheduled |-> "Scheduled", follow |-> "Follow",
   up |-> "Up", offer |-> "Offer", received |-> "Received", acme |-> "Acme"]

\* String.prototype.toLowerCase, token by token.
toLowerCase(text) ==
  [i \in DOMAIN text |->
     IF \E w \in DOMAIN Capitalised : Capitalised[w] = text[i]
     THEN CHOOSE w \in DOMAIN Capitalised : Capitalised[w] = text[i]
     ELSE text[i]]

\* String.prototype.replace with a string pattern: the first occurrence only.
replace(text, pattern, replacement) ==
  [i \in DOMAIN text |->
     IF text[i] = pattern /\ \A j \in 1..(i - 1) : text[j] # pattern
     THEN replacement ELSE text[i]]

\* The name a card shows for a type ('email-sent' shows as 'Email Sent').
DisplayName(type) ==
  [i \in DOMAIN type |->
     IF type[i] = "-" THEN " " ELSE Capitalised[type[i]]]

\* What a card of a given type reads.
CardText(type) == DisplayName(type) \o <<" ", "Acme">>

CardTexts == {CardText(type) : type \in ActivityTypes}

\* locator.count()
count(onPage) == Len(onPage)

\* ActivitiesPage.doesActivityTypeAppearInResults on the cards as they are.
doesActivityTypeAppearInResults(onPage, activityType) ==
  IF count(onPage) > 0
  THEN Includes(toLowerCase(onPage[1]),
                replace(toLowerCase(activityType), "-", " "))
  ELSE FALSE

NoState ==
  [at |-> "idle", hasActivities |-> FALSE, hasEmptyState |-> FALSE,
   activityCount |-> 0]

\* onPage keeps the first card the call found, if any.
NoTypeCheck == [type |-> <<>>, onPage |-> <<>>, result |-> FALSE]

ActivityIdle ==
  /\ activityCards = <<>>
  /\ activitiesState = NoState
  /\ typeCheck = NoTypeCheck

\* The activities page with some cards on display, or none.
ActivityInit ==
  /\ activityCards \in UNION {[1..n -> CardTexts] : n \in 0..MaxActivities}
  /\ activitiesState = NoState
  /\ typeCheck = NoTypeCheck

ActivityFrame ==
  UNCHANGED <<queryVars, setupVars, sessionVars, formVars, dialogVars, runVars,
              historyVars, authFormVars, timelineVars, filterVars, emailVars,
              workerVars, urlVars>>

\* The page re-renders its list: a card goes (a filter applies, a delete
\* completes) or a card comes (the list finishes loading).
CardGoes ==
  /\ activityCards # <<>>
  /\ activityCards' = Tail(activityCards)
  /\ UNCHANGED <<activitiesState, typeCheck>>
  /\ ActivityFrame

CardComes(text) ==
  /\ Len(activityCards) < MaxActivities
  /\ activityCards' = Append(activityCards, text)
  /\ UNCHANGED <<activitiesState, typeCheck>>
  /\ ActivityFrame

\* getActivitiesState, first await: hasActivities = count > 0.
StateHasActivities ==
  /\ activitiesState.at \in {"idle", "returned"}
  /\ activitiesState' = [at |-> "hasActivities",
                         hasActivities |-> count(activityCards) > 0,
                         hasEmptyState |-> FALSE, activityCount |-> 0]
  /\ UNCHANGED <<activityCards, typeCheck>>
  /\ ActivityFrame

\* Second await: isVisible('.no-activities'), which the page shows when it
\* has no card.
StateHasEmptyState ==
  /\ activitiesState.at = "hasActivities"
  /\ activitiesState' = [activitiesState EXCEPT !.at = "hasEmptyState",
                           !.hasEmptyState = (count(activityCards) = 0)]
  /\ UNCHANGED <<activityCards, typeCheck>>
  /\ ActivityFrame

\* Third await and return: activityCount = hasActivities ? count : 0.
StateActivityCount ==
  /\ activitiesState.at = "hasEmptyState"
  /\ activitiesState' = [activitiesState EXCEPT !.at = "returned",
                           !.activityCount = IF activitiesState.hasActivities
                                             THEN count(activityCards) ELSE 0]
  /\ UNCHANGED <<activityCards, typeCheck>>
  /\ ActivityFrame

\* A test calls doesActivityTypeAppearInResults once the list has settled.
DoesActivityTypeAppearInResults(activityType) ==
  /\ typeCheck' = [type |-> activityType,
                   onPage |-> IF activityCards = <<>> THEN <<>>
                              ELSE <<activityCards[1]>>,
                   result |-> doesActivityTypeAppearInResults(activityCards,
                                                              activityType)]
  /\ UNCHANGED <<activityCards, activitiesState>>
  /\ ActivityFrame

ActivityNext ==
  \/ CardGoes
  \/ \E text \in CardTexts : CardComes(text)
  \/ StateHasActivities
  \/ StateHasEmptyState
  \/ StateActivityCount
  \/ \E activityType \in ActivityTypes :
       DoesActivityTypeAppearInResults(activityType)

(***************************************************************************)
(* AuthPage.isOnDashboard and DashboardPage.isOnDashboard                  *)
(***************************************************************************)
\* The backend's origin (SETUP.md, the health check of waitForApplication).
BackendOrigin == <<"http:", "/", "/", "localhost:5000">>

\* URLs a page of the suite can show: the application's routes, with and
\* without a trailing slash or a query, the blank page, the backend's root.
Urls ==
  {AboutBlank, DashboardUrl, BackendOrigin \o <<"/">>,
   DashboardUrl \o <<"?search=react">>}
    \cup {Route(<<name>>) : name \in {"all-jobs", "add-job", "register", "landing"}}
    \cup {Route(<<name, "/">>) : name \in {"all-jobs", "register"}}

\* AuthPage.isOnDashboard:
\* url === `${url.split('/')[0]}//${url.split('/')[2]}/`
AuthPage_isOnDashboard(u) == isExactlyOrigin(u)

\* DashboardPage.isOnDashboard: url.endsWith('/')
DashboardPage_isOnDashboard(u) == EndsWith(u, <<"/">>)

\* A check not made yet is <<>>, one that returned b is <<b>>.
NoVerdicts == [about |-> <<>>, authPage |-> <<>>, dashboardPage |-> <<>>]

UrlIdle ==
  /\ address = AboutBlank
  /\ verdicts = NoVerdicts

UrlInit ==
  /\ address \in Urls
  /\ verdicts = NoVerdicts

UrlFrame ==
  UNCHANGED <<queryVars, setupVars, sessionVars, formVars, dialogVars, runVars,
              historyVars, authFormVars, timelineVars, filterVars, emailVars,
              workerVars, activityVars>>

\* The page goes to another URL.
Visit(u) ==
  /\ u # address
  /\ address' = u
  /\ UNCHANGED verdicts
  /\ UrlFrame

\* A verdict is kept together with the URL it is about.
About(u) == IF verdicts.about = u THEN verdicts ELSE [NoVerdicts EXCEPT !.about = u]

AuthIsOnDashboard ==
  /\ verdicts' = [About(address) EXCEPT !.authPage = <<AuthPage_isOnDashboard(address)>>]
  /\ UNCHANGED address
  /\ UrlFrame

DashboardIsOnDashboard ==
  /\ verdicts' = [About(address) EXCEPT
                    !.dashboardPage = <<DashboardPage_isOnDashboard(address)>>]
  /\ UNCHANGED address
  /\ UrlFrame

UrlNext ==
  \/ \E u \in Urls : Visit(u)
  \/ AuthIsOnDashboard
  \/ DashboardIsOnDashboard

(***************************************************************************)
(* Specifications                                                          *)
(***************************************************************************)
\* Each specification starts one part of the suite and keeps the others at
\* rest.
LateIdle == EmailIdle /\ WorkerIdle /\ ActivityIdle /\ UrlIdle

\* The parts modelled after the first five, at rest.
MoreIdle ==
  RunIdle /\ HistoryIdle /\ AuthFormIdle /\ TimelineIdle /\ FilterIdle
    /\ LateIdle

QueryStart ==
  QueryInit /\ SetupIdle /\ SessionIdle /\ FormIdle /\ DialogIdle /\ MoreIdle

SetupStart == SetupInit /\ QueryInit /\ FormIdle /\ DialogIdle /\ MoreIdle

SessionStart == SessionInit /\ QueryInit /\ FormIdle /\ DialogIdle /\ MoreIdle

FormStart ==
  FormInit /\ QueryInit /\ SetupIdle /\ SessionIdle /\ DialogIdle /\ MoreIdle

DialogStart ==
  DialogInit /\ QueryInit /\ SetupIdle /\ SessionIdle /\ FormIdle /\ MoreIdle

QuerySpec == QueryStart /\ [][QueryNext]_vars

SetupSpec == SetupStart /\ [][SetupNext]_vars

Spec == SessionStart /\ [][Next]_vars

FormSpec == FormStart /\ [][FormNext]_vars

DialogSpec == DialogStart /\ [][DialogNext]_vars

RunStart ==
  RunInit /\ QueryInit /\ SetupIdle /\ SessionIdle /\ FormIdle /\ DialogIdle
    /\ HistoryIdle /\ AuthFormIdle /\ TimelineIdle /\ FilterIdle /\ LateIdle

RunSpec == RunStart /\ [][RunNext]_vars

HistoryStart ==
  HistoryInit /\ QueryInit /\ FormIdle /\ DialogIdle /\ RunIdle /\ AuthFormIdle
    /\ TimelineIdle /\ FilterIdle /\ LateIdle

HistorySpec == HistoryStart /\ [][HistoryNext]_vars

AuthFormStart ==
  AuthFormInit /\ QueryInit /\ SetupIdle /\ SessionIdle /\ FormIdle /\ DialogIdle
    /\ RunIdle /\ HistoryIdle /\ TimelineIdle /\ FilterIdle /\ LateIdle

AuthFormSpec == AuthFormStart /\ [][AuthFormNext]_vars

TimelineStart ==
  TimelineInit /\ QueryInit /\ SetupIdle /\ SessionIdle /\ FormIdle /\ DialogIdle
    /\ RunIdle /\ HistoryIdle /\ AuthFormIdle /\ FilterIdle /\ LateIdle

TimelineSpec == TimelineStart /\ [][TimelineNext]_vars

FilterStart ==
  FilterInit /\ QueryInit /\ SetupIdle /\ SessionIdle /\ FormIdle /\ DialogIdle
    /\ RunIdle /\ HistoryIdle /\ AuthFormIdle /\ TimelineIdle /\ LateIdle

FilterSpec == FilterStart /\ [][FilterNext]_vars

EmailStart ==
  EmailInit /\ QueryInit /\ SetupIdle /\ SessionIdle /\ FormIdle /\ DialogIdle
    /\ RunIdle /\ HistoryIdle /\ AuthFormIdle /\ TimelineIdle /\ FilterIdle
    /\ WorkerIdle /\ ActivityIdle /\ UrlIdle

EmailSpec == EmailStart /\ [][EmailNext]_vars

WorkerStart ==
  WorkerInit /\ QueryInit /\ SetupIdle /\ SessionIdle /\ FormIdle /\ DialogIdle
    /\ RunIdle /\ HistoryIdle /\ AuthFormIdle /\ TimelineIdle /\ FilterIdle
    /\ EmailIdle /\ ActivityIdle /\ UrlIdle

WorkerSpec == WorkerStart /\ [][WorkerNext]_vars

ActivityStart ==
  ActivityInit /\ QueryInit /\ SetupIdle /\ SessionIdle /\ FormIdle /\ DialogIdle
    /\ RunIdle /\ HistoryIdle /\ AuthFormIdle /\ TimelineIdle /\ FilterIdle
    /\ EmailIdle /\ WorkerIdle /\ UrlIdle

ActivitySpec == ActivityStart /\ [][ActivityNext]_vars

UrlStart ==
  UrlInit /\ QueryInit /\ SetupIdle /\ SessionIdle /\ FormIdle /\ DialogIdle
    /\ RunIdle /\ HistoryIdle /\ AuthFormIdle /\ TimelineIdle /\ FilterIdle
    /\ EmailIdle /\ WorkerIdle /\ ActivityIdle

UrlSpec == UrlStart /\ [][UrlNext]_vars


\* C1 (as stated): a query on a selector that matches zero elements never
\* throws and returns its sentinel: false, 0 or the empty string.
C1_SentinelNeverThrows ==
  (ret.op # "none" /\ ret.zero) =>
    /\ ~ret.threw
    /\ ret.op = "isVisible" => ret.bool = FALSE
    /\ ret.op = "getElementCount" => ret.num = 0
    /\ ret.op = "getTextContent" => ret.str = ""

\* C1 (amended): on a selector that matches zero elements isVisible returns
\* false and getElementCount returns 0 without throwing, while getTextContent
\* returns nothing: it fails with the locator's timeout error.
C1_SentinelQueries ==
  (ret.op # "none" /\ ret.zero) =>
    /\ ret.op = "isVisible" => (~ret.threw /\ ret.bool = FALSE)
    /\ ret.op = "getElementCount" => (~ret.threw /\ ret.num = 0)
    /\ ret.op = "getTextContent" => (ret.threw /\ ret.error = "TimeoutError")

C1_Witness ==
  /\ ret.zero
  /\ ret.op = "getTextContent"
  /\ ret.threw
  /\ \E s \in Selectors : Len(dom[s]) > 0


\* C2: waitForApplication ends after at most 30 attempts per service,
\* whatever the two services answer.
C2_BoundedAttempts ==
  /\ attempts.frontend <= MaxRetries
  /\ attempts.backend <= MaxRetries

\* C3: a service that has failed 30 health checks in a row is polled no
\* further: globalSetup has thrown, and no test will run.
C3_UnhealthyThrows ==
  /\ pc = "frontend" => attempts.frontend < MaxRetries
  /\ pc = "backend" => attempts.backend < MaxRetries

\* C10: after a global setup that seeded the test user on an empty backend,
\* performLogin() with no argument lands on the dashboard URL '/'.
C10_DefaultLoginReachesDashboard ==
  (last.method = "performLogin" /\ users = {TestUser}) =>
    (last.outcome = "returned" /\ url = DashboardUrl)


\* C4 (as stated): isOnXPage is true right after navigateToX succeeds and
\* was false before it.
C4_TrueAfterFalseBefore ==
  (last.method = "navigateTo" /\ last.outcome = "returned") =>
    (isOnPage(last.arg, url) /\ ~last.before)

\* C4 (amended): isOnXPage is true right after navigateToX succeeds, and on
\* a fresh page every isOnXPage is false; before navigateToX it is true
\* whenever the page already shows X's route.
C4_TrueAfterNavigate ==
  /\ (last.method = "navigateTo" /\ last.outcome = "returned") =>
        isOnPage(last.arg, url)
  /\ url = AboutBlank => \A p \in Pages : ~isOnPage(p, url)

C4_Witness ==
  /\ last.method = "navigateTo"
  /\ last.outcome = "returned"
  /\ last.arg = "Dashboard"
  /\ ~last.before

\* C9 (as stated): every timeout the engine raises inside a page-object
\* method reaches the caller unchanged.
C9_EveryTimeoutPropagates ==
  \A i \in DOMAIN last.raised :
    last.outcome = "threw" /\ last.error = last.raised[i]

\* The engine errors a page-object method catches itself.
C9_Caught(method) ==
  CASE method = "testDirectNavigation" -> {"waitForURL"}
    [] method \in {"waitForDashboardLoad", "waitForJobsLoad",
                   "waitForActivitiesLoad"} -> {"waitForSelector:primary"}
    [] method = "AuthPage.logout" -> {"waitForURL:landing"}
    [] OTHER -> {}

\* C9 (amended): a timeout raised inside a page-object method reaches the
\* caller unchanged, except the ones testDirectNavigation, the three
\* waitFor...Load methods (their first element wait) and AuthPage.logout
\* (its wait for '/landing') catch; a call in which only those were raised
\* returns.
C9_TimeoutsPropagateUnlessCaught ==
  LET loud == SelectSeq(last.raised, LAMBDA e : e \notin C9_Caught(last.method))
  IN IF loud = <<>>
     THEN last.outcome \in {"returned", "none"}
     ELSE last.outcome = "threw" /\ loud = <<last.error>>

C9_Witness ==
  /\ last.method = "waitForDashboardLoad"
  /\ last.raised = <<"waitForSelector:primary", "waitForSelector:fallback">>
  /\ last.outcome = "threw"


\* The key of leaf field f is present in the draft.
KeyPresent(jobData, f) ==
  \/ f \in BasicFields /\ f \in DOMAIN jobData.basic
  \/ f \in EnhancedFields /\ jobData.enhanced # <<>> /\ f \in DOMAIN jobData.enhanced[1]
  \/ f \in Phase2Fields /\ jobData.phase2 # <<>> /\ f \in DOMAIN jobData.phase2[1]

\* The value the draft supplies for leaf field f, "" when it supplies none.
Supplied(jobData, f) ==
  IF ~KeyPresent(jobData, f) THEN ""
  ELSE IF f \in BasicFields THEN jobData.basic[f]
  ELSE IF f \in EnhancedFields THEN jobData.enhanced[1][f]
  ELSE jobData.phase2[1][f]

\* C5 (as stated): the fill workflow writes a leaf field if and only if its
\* key is present in the draft; other fields keep their prior value.
C5_WrittenIffKeyPresent ==
  fill.done =>
    \A f \in FormFields :
      /\ f \in fill.written <=> KeyPresent(fill.draft, f)
      /\ f \notin fill.written => form[f] = fill.before[f]

\* C5 (amended): the fill workflow writes a leaf field if and only if its key
\* is present in the draft with a non-empty value, and then the field holds
\* that value; a field whose key is absent or whose value is empty keeps its
\* prior value.
C5_WrittenIffValueGiven ==
  fill.done =>
    \A f \in FormFields :
      /\ f \in fill.written <=> Supplied(fill.draft, f) # ""
      /\ f \in fill.written => form[f] = Supplied(fill.draft, f)
      /\ f \notin fill.written => form[f] = fill.before[f]

C5_Witness ==
  /\ fill.done
  /\ "position" \in DOMAIN fill.draft.basic
  /\ fill.draft.basic["position"] = ""
  /\ fill.before["position"] = "old"
  /\ form["position"] = "old"
  /\ form["company"] = "company"

\* C6: fillCompleteJobForm with top-level fields only (neither enhanced nor
\* phase2) leaves every enhanced and phase2 field as it was.
C6_SubObjectsOmittedNoOp ==
  (fill.done /\ fill.draft.enhanced = <<>> /\ fill.draft.phase2 = <<>>) =>
    \A f \in EnhancedFields \cup Phase2Fields :
      form[f] = fill.before[f] /\ f \notin fill.written

C6_Witness ==
  /\ fill.done
  /\ fill.draft.enhanced = <<>>
  /\ fill.draft.phase2 = <<>>
  /\ fill.written = BasicFields
  /\ \A f \in EnhancedFields \cup Phase2Fields : form[f] = "old"

\* Every leaf key is present in the draft with a non-empty value.
FullyPopulated(jobData) == \A f \in FormFields : Supplied(jobData, f) # ""

\* C7 (as stated): after fillCompleteJobForm(data) with a fully populated
\* data, getFormValues returns, for every field supplied, the value supplied.
C7_ReadBackEveryField ==
  (readBack # <<>> /\ FullyPopulated(fill.draft)) =>
    \A f \in FormFields :
      f \in DOMAIN readBack /\ readBack[f] = Supplied(fill.draft, f)

\* C7 (amended): getFormValues returns nine fields (position, company,
\* jobLocation, jobType, status, salaryMin, salaryMax, category, priority);
\* right after fillCompleteJobForm(data) each of them equals the value data
\* supplied, or the field's prior value when data supplied none.
C7_ReadBackNineFields ==
  readBack # <<>> =>
    /\ DOMAIN readBack = ReadFields
    /\ \A f \in ReadFields :
         readBack[f] = IF Supplied(fill.draft, f) # ""
                       THEN Supplied(fill.draft, f) ELSE fill.before[f]

C7_Witness ==
  /\ readBack # <<>>
  /\ FullyPopulated(fill.draft)
  /\ \A f \in ReadFields : readBack[f] = f /\ fill.before[f] = "old"

\* C8: once setupDialogHandler has been called, a dialog is handled exactly
\* once, and the way the latest call asked for: accepted if accept was true,
\* dismissed otherwise.
C8_LatestHandlerDecidesOnce ==
  (dialog.outcome # "none" /\ dialog.calls > 0) =>
    /\ dialog.calls = 1
    /\ dialog.outcome =
         IF listeners[Len(listeners)] THEN "accepted" ELSE "dismissed"


\* The step an action was started by.
StepOf(a) == a[1]

\* C11 (as stated): no two actions of one test are ever in flight at once.
C11_OneActionInFlight == Cardinality(inflight) <= 1

\* C11 (amended): the steps of a test run in program order, one at a time:
\* every action in flight belongs to the step the test stands at, and no
\* action settles before one of an earlier step; two actions are in flight
\* together only when one Promise.all started both.
C11_StepsInProgramOrder ==
  /\ \A a \in inflight : StepOf(a) = step
  /\ \A i, j \in DOMAIN settled :
       i < j => StepOf(settled[i]) <= StepOf(settled[j])
  /\ \A a \in inflight : \A i \in DOMAIN settled : StepOf(settled[i]) <= StepOf(a)
  /\ Cardinality(inflight) > 1 => Len(script[step]) > 1

C11_Witness ==
  /\ script = RapidSubmissions
  /\ step = 2
  /\ Cardinality(inflight) = 3
  /\ settled = << <<1, 1>> >>


C17_BackForwardRoundTrip ==
  (last.method = "testBrowserNavigation" /\ last.before /\ authed) =>
    /\ last.outcome = "returned"
    /\ last.arg = [backToAllJobs |-> TRUE, backToDashboard |-> TRUE,
                   forwardToAllJobs |-> TRUE]
    /\ url = Route(<<"all-jobs">>)
    /\ history[cursor - 1] = DashboardUrl
    /\ history[cursor + 1] = Route(<<"add-job">>)

C17_Witness ==
  /\ last.method = "testBrowserNavigation"
  /\ last.before
  /\ authed
  /\ last.outcome = "returned"
  /\ history = <<AboutBlank, Route(<<"register">>), DashboardUrl,
                 Route(<<"all-jobs">>), Route(<<"add-job">>)>>
  /\ cursor = 4


\* C13: AuthPage.logout called by a logged-in user on an application page
\* returns with the session logged out and the page on '/landing'.
C13_LogoutEndsOnLanding ==
  (last.method = "AuthPage.logout" /\ last.before) =>
    /\ last.outcome = "returned"
    /\ ~authed
    /\ url = Route(<<"landing">>)

\* C14: once a logged-in user has logged out through AuthPage.logout or
\* NavigationComponent.logout, the page is on '/register'.
C14_LogoutEndsOnRegister ==
  (/\ last.method \in {"AuthPage.logout", "NavigationComponent.logout"}
   /\ last.before
   /\ last.arg = "clicked") =>
    /\ last.outcome = "returned"
    /\ url = Route(<<"register">>)


\* C15: the name field shows exactly in register mode, and a call of
\* isNameFieldVisible returns true when the last mode switch called before
\* it was switchToRegister and false when it was switchToLogin.
C15_NameFieldFollowsSwitch ==
  /\ isNameFieldVisible(authForm) <=> authForm.mode = "register"
  /\ (probe.op = "isNameFieldVisible" /\ probe.switch = "register")
       => probe.result = TRUE
  /\ (probe.op = "isNameFieldVisible" /\ probe.switch = "login")
       => probe.result = FALSE


\* C16: testViewModeToggle started in all-activities mode returns its five
\* flags all true.
C16_ToggleFlagsAllTrue ==
  (view.op = "testViewModeToggle" /\ view.startedIn = "all") =>
    view.flags = [initialAllActivitiesActive |-> TRUE,
                  byJobActive |-> TRUE,
                  jobSelectorVisibleInByJobMode |-> TRUE,
                  allActivitiesActiveAgain |-> TRUE,
                  jobSelectorHiddenInAllActivitiesMode |-> TRUE]


C19_EmailsUnique ==
  \A i, j \in DOMAIN emails :
    i # j => emails[i].email # emails[j].email

\* C20: when several workers run 'should delete a job' against the same test
\* user, every instance that has ended has passed and has left no job of its
\* own behind.
C20_EveryInstancePasses ==
  \A worker \in Workers :
    (at[worker] = "done" /\ outcome[worker] # "none") =>
      /\ outcome[worker] = "passed"
      /\ worker \notin jobs


\* The value createTestJob's defaults give to a field.
DefaultOf(f) ==
  IF f \in BasicFields THEN defaultJobData.basic[f]
  ELSE IF f \in EnhancedFields THEN defaultJobData.enhanced[1][f]
  ELSE defaultJobData.phase2[1][f]

\* C21: the job createTestJob(overrides) submits holds, for every field, the
\* override value when overrides names the field (top-level, or nested under
\* enhanced or phase2) and the default value otherwise.
C21_OverridesOverDefaults ==
  (fill.done /\ fill.method = "createTestJob") =>
    \A f \in FormFields :
      form[f] = IF KeyPresent(fill.overrides, f)
                THEN Supplied(fill.overrides, f)
                ELSE DefaultOf(f)


\* The delete flows of the suite: two page-object methods and two tests that
\* drive the page themselves.
DeleteFlows ==
  {"deleteJobByCompany", "deleteFirstActivity", "should delete a job",
   "should delete activity with confirmation"}

\* C22: the confirmation raised by a delete flow finds that flow's listener
\* registered and is accepted.
C22_ConfirmationAccepted ==
  dialog.flow \in DeleteFlows =>
    /\ dialog.calls > 0
    /\ dialog.outcome = "accepted"


\* C23: register(userData) submits the form in register mode holding the
\* name, email and password given, and login(credentials) submits it in login
\* mode holding the email and password given, whatever mode the form was in
\* and whether or not its mode-switch control had rendered.
C23_SubmitsInRequestedMode ==
  /\ probe.op = "register" =>
       /\ probe.submitted # <<>>
       /\ probe.submitted[1].mode = "register"
       /\ probe.submitted[1].name = probe.given.name
       /\ probe.submitted[1].email = probe.given.email
       /\ probe.submitted[1].password = probe.given.password
  /\ probe.op = "login" =>
       /\ probe.submitted[1].mode = "login"
       /\ probe.submitted[1].email = probe.given.email
       /\ probe.submitted[1].password = probe.given.password


\* Global setup or the run is over, one way or another.
SetupOver ==
  pc \in {"done", "finished", "threw", "setupTestData threw ahead of its try",
          "setupTestData threw in its try", "globalTeardown threw"}

\* C24: when global setup has returned or thrown, every browser it launched
\* has been closed.
C24_BrowsersClosed == SetupOver => browsers = 0

\* C25 (as stated): neither setupTestData nor globalTeardown ever throws;
\* global setup throws only out of waitForApplication.
C25_SeedingNeverFailsRun ==
  pc \notin {"setupTestData threw ahead of its try",
             "setupTestData threw in its try", "globalTeardown threw"}

\* C25 (amended): no error raised inside setupTestData's try block and no
\* error of cleanupTestData fails the run; setupTestData throws only ahead of
\* its try, when the browser or its page cannot be opened.
C25_SeedingInTryNeverFailsRun ==
  pc \notin {"setupTestData threw in its try", "globalTeardown threw"}

\* Seeding failed, the run went on and was torn down.
C25_Witness ==
  /\ pc = "finished"
  /\ TestUser \notin users


\* C26: the object getActivitiesState returns has hasActivities true exactly
\* when its activityCount is greater than 0.
C26_StateSelfConsistent ==
  activitiesState.at = "returned" =>
    (activitiesState.hasActivities <=> activitiesState.activityCount > 0)

\* C29: doesActivityTypeAppearInResults(type) is true exactly when there was
\* a card and the first card's text contained the type's display name,
\* compared without regard to case.
C29_TypeAppearsIffDisplayed ==
  typeCheck.type # <<>> =>
    (typeCheck.result <=>
       /\ typeCheck.onPage # <<>>
       /\ Includes(toLowerCase(typeCheck.onPage[1]),
                   toLowerCase(DisplayName(typeCheck.type))))


\* C27: on every URL, AuthPage.isOnDashboard and DashboardPage.isOnDashboard
\* both say whether the URL is the application's origin followed by one '/'.
C27_DashboardChecksAgree ==
  /\ verdicts.authPage # <<>> =>
       (verdicts.authPage[1] <=> verdicts.about = DashboardUrl)
  /\ verdicts.dashboardPage # <<>> =>
       (verdicts.dashboardPage[1] <=> verdicts.about = DashboardUrl)


\* The keys of FilterKeys that satisfy Wanted, in FilterKeys' order.
RECURSIVE KeysInOrder(_, _)
KeysInOrder(Wanted(_), i) ==
  IF i > Len(FilterKeys) THEN <<>>
  ELSE (IF Wanted(FilterKeys[i]) THEN <<FilterKeys[i]>> ELSE <<>>)
         \o KeysInOrder(Wanted, i + 1)

\* C28 (as stated): applyFilters(filters) sets exactly the controls whose key
\* is supplied in filters, in the order search, status, type, category,
\* priority, sort, and leaves every other control at its prior value.
C28_AppliesSuppliedKeys ==
  applied.given # <<>> =>
    LET HasKey(key) == key \in DOMAIN applied.given
    IN /\ applied.touched = KeysInOrder(HasKey, 1)
       /\ \A key \in Keys :
            filters[key] = IF HasKey(key) THEN applied.given[key]
                           ELSE applied.before[key]

\* C28 (amended): applyFilters(filters) sets exactly the controls whose key
\* is supplied with a non-empty value, in that order, and leaves every other
\* control, a key supplied as '' included, at its prior value.
C28_AppliesTruthyKeys ==
  applied.given # <<>> =>
    LET HasValue(key) == key \in DOMAIN applied.given /\ applied.given[key] # ""
    IN /\ applied.touched = KeysInOrder(HasValue, 1)
       /\ \A key \in Keys :
            filters[key] = IF HasValue(key) THEN applied.given[key]
                           ELSE applied.before[key]

\* sort was written first in the object and applied last; priority kept a
\* prior value that is not the initial one.
C28_Witness ==
  /\ applied.given = [sort |-> "a-z", search |-> "Developer"]
  /\ applied.touched = <<"search", "sort">>
  /\ filters["priority"] = "high"
  /\ applied.before["search"] = ""

====
